---- MODULE Spec2Model ----
(***************************************************************************)
(* BitFlow Python SDK: the webhook handler (bitflow/webhook.py) and the    *)
(* HTTP client's request routine (bitflow/client.py) as state machines.    *)
(*                                                                         *)
(* Python values are tagged records [type, value]; an operation that can   *)
(* raise yields [exc, value] with exc = "-" when it returned.  Library     *)
(* calls whose code is outside the repository (json.loads, hmac/sha256)    *)
(* are tabulated on the concrete texts the model uses; the table entries   *)
(* are the values the library returns for those texts.                     *)
(***************************************************************************)
EXTENDS Integers, Sequences, FiniteSets, TLC

VARIABLES secret, event_handlers, reg_log, client, session, inflight, last_call

vars == <<secret, event_handlers, reg_log, client, session, inflight, last_call>>

(* ------------------------------------------------------------------ *)
(* Bounds                                                              *)
(* ------------------------------------------------------------------ *)

\* Registrations (on_event, on_webhook, on_<event>) made on one handler.
MaxRegistrations == 2

(* ------------------------------------------------------------------ *)
(* Python values                                                       *)
(* ------------------------------------------------------------------ *)

PyStr(s) == [type |-> "str", value |-> s]

PyBytes(s) == [type |-> "bytes", value |-> s]

PyInt(n) == [type |-> "int", value |-> n]

PyBool(b) == [type |-> "bool", value |-> b]

PyList(seq) == [type |-> "list", value |-> seq]

PyDict(rec) == [type |-> "dict", value |-> rec]

PyNone == [type |-> "NoneType", value |-> "None"]

\* An f-string: the parts that are joined, in order.
FStr(parts) == [type |-> "fstr", value |-> parts]

\* An attribute the object does not have.
NoAttr == [type |-> "absent", value |-> "-"]

\* bool(v) of the values the SDK tests for truth.
Truthy(v) ==
  CASE v.type \in {"NoneType", "absent"} -> FALSE
    [] v.type = "bool" -> v.value
    [] v.type = "int" -> v.value # 0
    [] v.type \in {"str", "bytes"} -> v.value # ""
    [] v.type \in {"list", "dict"} -> DOMAIN v.value # {}
    [] OTHER -> TRUE

\* A call that returned v / a call that raised an exception of class e.
Ok(v) == [exc |-> "-", value |-> v]

Err(e) == [exc |-> e, value |-> PyNone]

\* Python's exception classes, as far as the except clauses tell them apart.
IsInstance(exc, classes) ==
  \/ exc \in classes
  \/ exc = "JSONDecodeError" /\ "ValueError" \in classes
  \/ exc # "-" /\ "Exception" \in classes

(* ------------------------------------------------------------------ *)
(* Inputs: webhook secrets, payload texts, signatures, callbacks       *)
(* ------------------------------------------------------------------ *)

S_Test == "test-secret"

S_Other == "other-secret"

P_NotJson == "not json"

P_Array == "[]"

P_String == "\"abc\""

P_EmptyObject == "{}"

P_NoData == "{\"id\":\"w_nd\",\"event\":\"stream.created\",\"timestamp\":\"t_nd\"}"

P_UnknownEvent == "{\"id\":\"w_ue\",\"event\":\"unknown.event\",\"data\":{\"k\":\"d_ue\"},\"timestamp\":\"t_ue\"}"

P_GenericKeyEvent == "{\"id\":\"w_gk\",\"event\":\"webhook\",\"data\":{\"k\":\"d_gk\"},\"timestamp\":\"t_gk\"}"

P_NullEvent == "{\"id\":\"w_ne\",\"event\":null,\"data\":{\"k\":\"d_ne\"},\"timestamp\":\"t_ne\"}"

P_StreamCreated == "{\"id\":\"w_sc\",\"event\":\"stream.created\",\"data\":{\"k\":\"d_sc\"},\"timestamp\":\"t_sc\"}"

P_StreamCancelled == "{\"id\":\"w_sx\",\"event\":\"stream.cancelled\",\"data\":{\"k\":\"d_sx\"},\"timestamp\":\"t_sx\"}"

P_StreamCompleted == "{\"id\":\"w_sd\",\"event\":\"stream.completed\",\"data\":{\"k\":\"d_sd\"},\"timestamp\":\"t_sd\"}"

P_SubscriptionCreated == "{\"id\":\"w_uc\",\"event\":\"subscription.created\",\"data\":{\"k\":\"d_uc\"},\"timestamp\":\"t_uc\"}"

P_SubscriptionCancelled == "{\"id\":\"w_ux\",\"event\":\"subscription.cancelled\",\"data\":{\"k\":\"d_ux\"},\"timestamp\":\"t_ux\"}"

P_PaymentReceived == "{\"id\":\"w_pr\",\"event\":\"payment.received\",\"data\":{\"k\":\"d_pr\"},\"timestamp\":\"t_pr\"}"

PayloadTexts ==
  {P_NotJson, P_Array, P_String, P_EmptyObject, P_NoData, P_UnknownEvent,
   P_GenericKeyEvent, P_NullEvent, P_StreamCreated, P_StreamCancelled,
   P_StreamCompleted, P_SubscriptionCreated, P_SubscriptionCancelled,
   P_PaymentReceived}

\* json.loads on the payload texts.
json_loads(s) ==
  CASE s = P_NotJson -> Err("JSONDecodeError")
    [] s = P_Array -> Ok(PyList(<<>>))
    [] s = P_String -> Ok(PyStr("abc"))
    [] s = P_EmptyObject -> Ok(PyDict(<<>>))
    [] s = P_NoData -> Ok(PyDict([id |-> PyStr("w_nd"), event |-> PyStr("stream.created"), timestamp |-> PyStr("t_nd")]))
    [] s = P_UnknownEvent -> Ok(PyDict([id |-> PyStr("w_ue"), event |-> PyStr("unknown.event"), data |-> PyDict([k |-> PyStr("d_ue")]), timestamp |-> PyStr("t_ue")]))
    [] s = P_GenericKeyEvent -> Ok(PyDict([id |-> PyStr("w_gk"), event |-> PyStr("webhook"), data |-> PyDict([k |-> PyStr("d_gk")]), timestamp |-> PyStr("t_gk")]))
    [] s = P_NullEvent -> Ok(PyDict([id |-> PyStr("w_ne"), event |-> PyNone, data |-> PyDict([k |-> PyStr("d_ne")]), timestamp |-> PyStr("t_ne")]))
    [] s = P_StreamCreated -> Ok(PyDict([id |-> PyStr("w_sc"), event |-> PyStr("stream.created"), data |-> PyDict([k |-> PyStr("d_sc")]), timestamp |-> PyStr("t_sc")]))
    [] s = P_StreamCancelled -> Ok(PyDict([id |-> PyStr("w_sx"), event |-> PyStr("stream.cancelled"), data |-> PyDict([k |-> PyStr("d_sx")]), timestamp |-> PyStr("t_sx")]))
    [] s = P_StreamCompleted -> Ok(PyDict([id |-> PyStr("w_sd"), event |-> PyStr("stream.completed"), data |-> PyDict([k |-> PyStr("d_sd")]), timestamp |-> PyStr("t_sd")]))
    [] s = P_SubscriptionCreated -> Ok(PyDict([id |-> PyStr("w_uc"), event |-> PyStr("subscription.created"), data |-> PyDict([k |-> PyStr("d_uc")]), timestamp |-> PyStr("t_uc")]))
    [] s = P_SubscriptionCancelled -> Ok(PyDict([id |-> PyStr("w_ux"), event |-> PyStr("subscription.cancelled"), data |-> PyDict([k |-> PyStr("d_ux")]), timestamp |-> PyStr("t_ux")]))
    [] s = P_PaymentReceived -> Ok(PyDict([id |-> PyStr("w_pr"), event |-> PyStr("payment.received"), data |-> PyDict([k |-> PyStr("d_pr")]), timestamp |-> PyStr("t_pr")]))

\* hmac.new(key, msg, hashlib.sha256).hexdigest() on the secrets and payload texts.
HmacSha256Hex(key, msg) ==
  CASE key = S_Test /\ msg = P_NotJson ->
       "fe68c90da0bbb712f0f5c50663c6a30698f249678fb190ddd85d95dfe208faa6"
    [] key = S_Test /\ msg = P_Array ->
       "6a297da1af2bdacfa8a7e6fedd073b477e9027dabc1c3898ffa117d2e8719bcc"
    [] key = S_Test /\ msg = P_String ->
       "e53eb50e89f8d385ef5bd49759b2ac993e234eadc0361a7c532a2956c96bfdac"
    [] key = S_Test /\ msg = P_EmptyObject ->
       "2f59040b63b7200598444239da2c9a4f3abc5c434259b23126d72514dab8cd09"
    [] key = S_Test /\ msg = P_NoData ->
       "3d91d3a3fe7ecffabe2cb077511f67f260f2b384b1dd4b233e5baebee3fcca1a"
    [] key = S_Test /\ msg = P_UnknownEvent ->
       "41ab0281962039e7cf70da014b3703e25ecc7263d803d2f39acacf21174954c3"
    [] key = S_Test /\ msg = P_GenericKeyEvent ->
       "bc133733ed9a2b98401c2a261e78450bb31ef6cfdcbfb8f61beb386960a91db0"
    [] key = S_Test /\ msg = P_NullEvent ->
       "7825147abc032968b6fc44dd604382004b4e00f70c61327b711ca32e706c6dae"
    [] key = S_Test /\ msg = P_StreamCreated ->
       "e372d2bddf93639286748be91e2fdadcf575bb4e8a13c33c2b21c7f01b0e041d"
    [] key = S_Test /\ msg = P_StreamCancelled ->
       "e7933ed7d65dbc0ffd3fdbbd269376ccec7a89aa401985acdcd6a5a9d1551ab5"
    [] key = S_Test /\ msg = P_StreamCompleted ->
       "d4a5414612aa248fa683cd8f5bd438c4843618c68df96a41a8f7df556952af07"
    [] key = S_Test /\ msg = P_SubscriptionCreated ->
       "261d014a0670b0198acecb5c597560706c5402c204cb14a9457e1129efb79ee8"
    [] key = S_Test /\ msg = P_SubscriptionCancelled ->
       "15b2d426bcda379e87afacaf6df8594d01eaa0b5d5b626ab84820f918dcd45e9"
    [] key = S_Test /\ msg = P_PaymentReceived ->
       "3e96ff11b3b668623942172c6bf63f4768607e3424c6d1fe23a08fba463fe94d"
    [] key = S_Other /\ msg = P_NotJson ->
       "642aa3096711b559c9be2a62502a44d36dc672426a49d52b6e619af0da4e404e"
    [] key = S_Other /\ msg = P_Array ->
       "ca99f681f6901fcd30c6fc3e7ca3ec10be6af656bf32574ad2c778c570f0e7ba"
    [] key = S_Other /\ msg = P_String ->
       "4247f33fd740b5d66702fa7601ee365fc256a20c1b4718e2c1963d716abc7228"
    [] key = S_Other /\ msg = P_EmptyObject ->
       "49ff20d3788cde794e4e3424e5e655e8b8a288e92628d313ea1c811c7677925c"
    [] key = S_Other /\ msg = P_NoData ->
       "a8cacdbb941dcc7290b2f6337746db6c61606d432d08d87013ab5b4ef04c7595"
    [] key = S_Other /\ msg = P_UnknownEvent ->
       "e284cc3f2c46c312d5d485ec8bab25da803c2f5263dcd4c39324f40905137bcf"
    [] key = S_Other /\ msg = P_GenericKeyEvent ->
       "eddce13985970d1ccef6eb31bbea6e7f537484634bf7d1736a92d986fdc96ce2"
    [] key = S_Other /\ msg = P_NullEvent ->
       "fdeb5a88985df70e62f63c3a1658e5ef513ed925e50af77718d3271546c1f886"
    [] key = S_Other /\ msg = P_StreamCreated ->
       "53e2db62a67898f822b51d93325e90cc64f82fa7032ef36e88e0489a187dfa6d"
    [] key = S_Other /\ msg = P_StreamCancelled ->
       "05e75069a0bb8f7caa40e9106c87c7de0da897248b335501d0d6520de578c61e"
    [] key = S_Other /\ msg = P_StreamCompleted ->
       "39b518b17a693b25996fa1e5d5248490d034806d40aec3bbfa4c32985af9718d"
    [] key = S_Other /\ msg = P_SubscriptionCreated ->
       "c9556e3dcd3dc238bf7641ea4e593a3ec56ce96d6f917b6282aa131ddace001a"
    [] key = S_Other /\ msg = P_SubscriptionCancelled ->
       "620bf9ddec950ef879b0b58cd9cda3bba23235964632d04acd4890b1cf3519e1"
    [] key = S_Other /\ msg = P_PaymentReceived ->
       "69d143f16ed90940a531223a34e942669d636fcf9ce50545a2b01d888d019db2"

Sig_Upper == "E372D2BDDF93639286748BE91E2FDADCF575BB4E8A13C33C2B21C7F01B0E041D"

Sig_Truncated == "e372d2bddf93639286748be91e2fdadcf575bb4e8a13c33c2b21c7f01b0e041"

Sig_Padded == "e372d2bddf93639286748be91e2fdadcf575bb4e8a13c33c2b21c7f01b0e041d "

Sig_LastFlipped == "e372d2bddf93639286748be91e2fdadcf575bb4e8a13c33c2b21c7f01b0e0410"

\* A signature that is a str holding a non-ASCII character.
Sig_NonAscii == "sïg"

NonAsciiTexts == {Sig_NonAscii}

\* Callbacks the application registers, by identity.
Handlers == {"h1", "h2"}

\* What a callback does when invoked: it returns, or raises an exception of
\* the named class.  The choice belongs to the application, not to the SDK.
Effects == {"return", "ValueError", "RuntimeError"}

(* ------------------------------------------------------------------ *)
(* bitflow/types.py                                                    *)
(* ------------------------------------------------------------------ *)

STREAM_CREATED == "stream.created"

STREAM_CANCELLED == "stream.cancelled"

STREAM_COMPLETED == "stream.completed"

SUBSCRIPTION_CREATED == "subscription.created"

SUBSCRIPTION_CANCELLED == "subscription.cancelled"

PAYMENT_RECEIVED == "payment.received"

\* The values of the members of enum WebhookEvent.
WebhookEventValues ==
  {STREAM_CREATED, STREAM_CANCELLED, STREAM_COMPLETED,
   SUBSCRIPTION_CREATED, SUBSCRIPTION_CANCELLED, PAYMENT_RECEIVED}

\* Mutant of WebhookEvent: any str is taken as an event name.
WebhookEvent_AnyString(v) ==
  IF v.type = "str"
  THEN [exc |-> "-", value |-> v.value]
  ELSE [exc |-> "ValueError", value |-> "-"]

\* WebhookEvent(value): the member with that value, or ValueError.  A member
\* is represented by its value (the enum is a str enum).
WebhookEvent(v) ==
  IF v.type = "str" /\ v.value \in WebhookEventValues
  THEN [exc |-> "-", value |-> v.value]
  ELSE [exc |-> "ValueError", value |-> "-"]

\* The dataclass WebhookPayload: four fields, stored as given.
WebhookPayload(id, event, data, timestamp) ==
  [id |-> id, event |-> event, data |-> data, timestamp |-> timestamp]

(* ------------------------------------------------------------------ *)
(* bitflow/exceptions.py                                               *)
(* ------------------------------------------------------------------ *)

\* A call's outcome: it returned `value`, or raised an exception of class
\* `exc` with the attributes of BitFlowError; `origin` is where the exception
\* was created.
Return(v) ==
  [kind |-> "return", value |-> v, exc |-> "-", message |-> NoAttr,
   code |-> NoAttr, status_code |-> NoAttr, retry_after |-> NoAttr,
   origin |-> "-"]

Raise(cls, message, code, status_code, retry_after, origin) ==
  [kind |-> "raise", value |-> PyNone, exc |-> cls, message |-> message,
   code |-> code, status_code |-> status_code, retry_after |-> retry_after,
   origin |-> origin]

\* BitFlowError(message, code, status_code)
BitFlowError(message, code, status_code) ==
  Raise("BitFlowError", message, code, status_code, NoAttr, "sdk")

AuthenticationError(message) ==
  Raise("AuthenticationError", message, PyStr("AUTHENTICATION_ERROR"),
        PyInt(401), NoAttr, "sdk")

ValidationError(message) ==
  Raise("ValidationError", message, PyStr("VALIDATION_ERROR"), PyInt(400),
        NoAttr, "sdk")

NotFoundError(message) ==
  Raise("NotFoundError", message, PyStr("NOT_FOUND"), PyInt(404), NoAttr, "sdk")

RateLimitError(message, retry_after) ==
  Raise("RateLimitError", message, PyStr("RATE_LIMIT_EXCEEDED"), PyInt(429),
        retry_after, "sdk")

NetworkError(message) ==
  Raise("NetworkError", message, PyStr("NETWORK_ERROR"), PyNone, NoAttr, "sdk")

\* BitFlowError and its subclasses.
BitFlowErrorClasses ==
  {"BitFlowError", "AuthenticationError", "ValidationError", "NotFoundError",
   "RateLimitError", "NetworkError"}

\* An exception of another class, raised by a library call, a built-in or a
\* callback, that leaves the call as it is.
Propagate(exc, origin) == Raise(exc, NoAttr, NoAttr, NoAttr, NoAttr, origin)

(* ------------------------------------------------------------------ *)
(* Python built-ins used by bitflow/webhook.py                         *)
(* ------------------------------------------------------------------ *)

\* str.encode('utf-8'): only a str has the method.
encode_utf8(v) ==
  IF v.type = "str" THEN Ok(PyBytes(v.value)) ELSE Err("AttributeError")

\* hmac.compare_digest(a, b): both str (ASCII only) or both bytes, else
\* TypeError; equal contents otherwise.
compare_digest(a, b) ==
  IF a.type = "str" /\ b.type = "str"
  THEN IF a.value \in NonAsciiTexts \/ b.value \in NonAsciiTexts
       THEN Err("TypeError")
       ELSE Ok(PyBool(a.value = b.value))
  ELSE IF a.type = "bytes" /\ b.type = "bytes"
       THEN Ok(PyBool(a.value = b.value))
       ELSE Err("TypeError")

\* obj[key] with a str key: a dict looks the key up (KeyError when absent);
\* list, str, int and None raise TypeError.
getitem(obj, key) ==
  IF obj.type = "dict"
  THEN IF key \in DOMAIN obj.value THEN Ok(obj.value[key]) ELSE Err("KeyError")
  ELSE Err("TypeError")

(* ------------------------------------------------------------------ *)
(* bitflow/webhook.py: WebhookHandler                                  *)
(* ------------------------------------------------------------------ *)

\* The reserved key of the generic callback in _event_handlers.
GenericKey == "webhook"

HandlerKeys == WebhookEventValues \cup {GenericKey}

\* __init__: self._event_handlers = {}
EmptyHandlers == [k \in {} |-> "h1"]

\* Mutant of DictSet: the assignment drops the other keys of the dict.
DictSet_DropsOthers(d, key, value) == [k \in {key} |-> value]

\* d[key] = value on a dict.
DictSet(d, key, value) ==
  [k \in DOMAIN d \cup {key} |-> IF k = key THEN value ELSE d[k]]

\* Lines 35-41, the try block of verify_signature: the comparison's result,
\* or the exception raised on the way.
SignatureMatches(sec, payload, signature) ==
  LET key == encode_utf8(sec)
      msg == encode_utf8(payload)
  IN IF key.exc # "-" THEN key
     ELSE IF msg.exc # "-" THEN msg
     ELSE compare_digest(signature,
                         PyStr(HmacSha256Hex(key.value.value, msg.value.value)))

\* Mutant of verify_signature: an internal error counts as a valid signature.
verify_signature_FailOpen(sec, payload, signature) ==
  LET matches == SignatureMatches(sec, payload, signature)
  IN IF matches.exc # "-" THEN Return(PyBool(TRUE)) ELSE Return(matches.value)

\* Mutant of verify_signature: without the except clause.
verify_signature_NoExcept(sec, payload, signature) ==
  LET matches == SignatureMatches(sec, payload, signature)
  IN IF matches.exc # "-" THEN Propagate(matches.exc, "verify_signature")
     ELSE Return(matches.value)

\* verify_signature(payload, signature), lines 34-43: except Exception
\* turns what the try block raises into False.
verify_signature(sec, payload, signature) ==
  LET matches == SignatureMatches(sec, payload, signature)
  IN IF matches.exc = "-" THEN Return(matches.value)
     ELSE IF IsInstance(matches.exc, {"Exception"}) THEN Return(PyBool(FALSE))
     ELSE Propagate(matches.exc, "verify_signature")

\* Lines 62-68: parse the payload and build the envelope; the first
\* exception raised ends the evaluation.
ParseEnvelope(payload) ==
  LET webhook_data == json_loads(payload.value)
  IN IF webhook_data.exc # "-" THEN [exc |-> webhook_data.exc, value |-> "-"]
     ELSE
     LET f_id == getitem(webhook_data.value, "id")
     IN IF f_id.exc # "-" THEN [exc |-> f_id.exc, value |-> "-"]
     ELSE
     LET f_event == getitem(webhook_data.value, "event")
     IN IF f_event.exc # "-" THEN [exc |-> f_event.exc, value |-> "-"]
     ELSE
     LET event == WebhookEvent(f_event.value)
     IN IF event.exc # "-" THEN [exc |-> event.exc, value |-> "-"]
     ELSE
     LET f_data == getitem(webhook_data.value, "data")
     IN IF f_data.exc # "-" THEN [exc |-> f_data.exc, value |-> "-"]
     ELSE
     LET f_timestamp == getitem(webhook_data.value, "timestamp")
     IN IF f_timestamp.exc # "-" THEN [exc |-> f_timestamp.exc, value |-> "-"]
     ELSE [exc |-> "-",
           value |-> WebhookPayload(f_id.value, event.value, f_data.value,
                                    f_timestamp.value)]

\* One invocation of a registered callback.
Invocation(slot, handler, args, effect) ==
  [slot |-> slot, handler |-> handler, args |-> args, effect |-> effect]

\* Mutant of Dispatch: the generic callback is an elif of the specific one.
Dispatch_GenericAsFallback(handlers, webhook_payload, effects) ==
  IF webhook_payload.event \in DOMAIN handlers
  THEN [exc |-> IF effects.event = "return" THEN "-" ELSE effects.event,
        calls |-> <<Invocation(webhook_payload.event, handlers[webhook_payload.event],
                               <<webhook_payload.data, webhook_payload>>,
                               effects.event)>>]
  ELSE IF GenericKey \in DOMAIN handlers
       THEN [exc |-> IF effects.generic = "return" THEN "-" ELSE effects.generic,
             calls |-> <<Invocation(GenericKey, handlers[GenericKey],
                                    <<webhook_payload>>, effects.generic)>>]
       ELSE [exc |-> "-", calls |-> <<>>]

\* Mutant of Dispatch: the generic callback is invoked first.
Dispatch_GenericFirst(handlers, webhook_payload, effects) ==
  LET specific ==
        IF webhook_payload.event \in DOMAIN handlers
        THEN <<Invocation(webhook_payload.event, handlers[webhook_payload.event],
                          <<webhook_payload.data, webhook_payload>>, effects.event)>>
        ELSE <<>>
      generic ==
        IF GenericKey \in DOMAIN handlers
        THEN <<Invocation(GenericKey, handlers[GenericKey],
                          <<webhook_payload>>, effects.generic)>>
        ELSE <<>>
  IN IF generic # <<>> /\ effects.generic # "return"
     THEN [exc |-> effects.generic, calls |-> generic]
     ELSE IF specific # <<>> /\ effects.event # "return"
          THEN [exc |-> effects.event, calls |-> generic \o specific]
          ELSE [exc |-> "-", calls |-> generic \o specific]

\* Mutant of Dispatch: the callback of the event is looked up without the
\* membership test, so a missing callback is a KeyError.
Dispatch_RequiresHandler(handlers, webhook_payload, effects) ==
  IF webhook_payload.event \notin DOMAIN handlers
  THEN [exc |-> "KeyError", calls |-> <<>>]
  ELSE LET specific ==
             <<Invocation(webhook_payload.event, handlers[webhook_payload.event],
                          <<webhook_payload.data, webhook_payload>>, effects.event)>>
           generic ==
             IF GenericKey \in DOMAIN handlers
             THEN <<Invocation(GenericKey, handlers[GenericKey],
                               <<webhook_payload>>, effects.generic)>>
             ELSE <<>>
       IN IF effects.event # "return"
          THEN [exc |-> effects.event, calls |-> specific]
          ELSE IF generic # <<>> /\ effects.generic # "return"
               THEN [exc |-> effects.generic, calls |-> specific \o generic]
               ELSE [exc |-> "-", calls |-> specific \o generic]

\* Lines 70-78: the specific callback, then the generic one.  effects.event
\* and effects.generic are what the two callbacks do if they are invoked.
\* Yields the invocations made and the exception that ended them, if any.
Dispatch(handlers, webhook_payload, effects) ==
  LET specific ==
        IF webhook_payload.event \in DOMAIN handlers
        THEN <<Invocation(webhook_payload.event, handlers[webhook_payload.event],
                          <<webhook_payload.data, webhook_payload>>, effects.event)>>
        ELSE <<>>
      generic ==
        IF GenericKey \in DOMAIN handlers
        THEN <<Invocation(GenericKey, handlers[GenericKey],
                          <<webhook_payload>>, effects.generic)>>
        ELSE <<>>
  IN IF specific # <<>> /\ effects.event # "return"
     THEN [exc |-> effects.event, calls |-> specific]
     ELSE IF generic # <<>> /\ effects.generic # "return"
          THEN [exc |-> effects.generic, calls |-> specific \o generic]
          ELSE [exc |-> "-", calls |-> specific \o generic]

\* The exception classes the except clause of process_webhook names.
CaughtByProcessWebhook == {"JSONDecodeError", "KeyError", "ValueError"}

\* Line 59: BitFlowError("Invalid webhook signature", "INVALID_SIGNATURE")
InvalidSignature ==
  BitFlowError(PyStr("Invalid webhook signature"), PyStr("INVALID_SIGNATURE"),
               PyNone)

\* Line 83: BitFlowError(f"Invalid webhook payload: {str(e)}", "INVALID_PAYLOAD")
InvalidPayload(e) ==
  BitFlowError(FStr(<<"Invalid webhook payload: ", e>>), PyStr("INVALID_PAYLOAD"),
               PyNone)

\* Lines 61-83: the try block and its except clause, entered once the
\* signature has verified.
ProcessVerified(handlers, payload, effects) ==
  LET parsed == ParseEnvelope(payload)
  IN IF parsed.exc # "-"
     THEN IF IsInstance(parsed.exc, CaughtByProcessWebhook)
          THEN [outcome |-> InvalidPayload(parsed.exc), calls |-> <<>>]
          ELSE [outcome |-> Propagate(parsed.exc, "parse"), calls |-> <<>>]
     ELSE
     LET d == Dispatch(handlers, parsed.value, effects)
     IN IF d.exc = "-"
        THEN [outcome |-> Return(PyBool(TRUE)), calls |-> d.calls]
        ELSE IF IsInstance(d.exc, CaughtByProcessWebhook)
             THEN [outcome |-> InvalidPayload(d.exc), calls |-> d.calls]
             ELSE [outcome |-> Propagate(d.exc, "callback"), calls |-> d.calls]

\* Mutant of process_webhook: an invalid signature makes it return False.
process_webhook_ReturnsFalse(handlers, sec, payload, signature, effects) ==
  LET verified == verify_signature(sec, payload, signature)
  IN IF verified.kind = "raise" THEN [outcome |-> verified, calls |-> <<>>]
     ELSE IF ~Truthy(verified.value)
     THEN [outcome |-> Return(PyBool(FALSE)), calls |-> <<>>]
     ELSE ProcessVerified(handlers, payload, effects)

\* Mutant of process_webhook: the signature check is left out.
process_webhook_Unverified(handlers, sec, payload, signature, effects) ==
  ProcessVerified(handlers, payload, effects)

\* process_webhook(payload, signature), lines 58-83: the outcome of the call
\* and the callback invocations it made.
process_webhook(handlers, sec, payload, signature, effects) ==
  LET verified == verify_signature(sec, payload, signature)
  IN IF verified.kind = "raise" THEN [outcome |-> verified, calls |-> <<>>]
     ELSE IF ~Truthy(verified.value)
     THEN [outcome |-> InvalidSignature, calls |-> <<>>]
     ELSE ProcessVerified(handlers, payload, effects)

\* Mutant of on_event: a slot that is taken keeps its callback.
on_event_KeepFirst(handlers, event, handler) ==
  IF event \in DOMAIN handlers THEN handlers ELSE DictSet(handlers, event, handler)

on_event(handlers, event, handler) == DictSet(handlers, event, handler)

on_webhook(handlers, handler) == DictSet(handlers, GenericKey, handler)

on_stream_created(handlers, handler) == on_event(handlers, STREAM_CREATED, handler)

\* Mutant of on_stream_cancelled: it registers for stream.created.
on_stream_cancelled_WrongEvent(handlers, handler) ==
  on_event(handlers, STREAM_CREATED, handler)

on_stream_cancelled(handlers, handler) == on_event(handlers, STREAM_CANCELLED, handler)

on_stream_completed(handlers, handler) == on_event(handlers, STREAM_COMPLETED, handler)

on_subscription_created(handlers, handler) == on_event(handlers, SUBSCRIPTION_CREATED, handler)

on_subscription_cancelled(handlers, handler) == on_event(handlers, SUBSCRIPTION_CANCELLED, handler)

on_payment_received(handlers, handler) == on_event(handlers, PAYMENT_RECEIVED, handler)
(* ------------------------------------------------------------------ *)
(* bitflow/webhook.py: the framework adapters                          *)
(* ------------------------------------------------------------------ *)

\* Names under which a client sends the signature header, and the name of a
\* header of another sender.
HeaderNames == {"X-BitFlow-Signature", "x-bitflow-signature", "X-Hub-Signature"}

\* str.lower() on the header names.
lower(name) ==
  CASE name \in {"X-BitFlow-Signature", "x-bitflow-signature"}
         -> "x-bitflow-signature"
    [] name = "X-Hub-Signature" -> "x-hub-signature"
    [] OTHER -> name

\* The key under which a WSGI server puts a request header into
\* request.META: HTTP_ and the name in upper case with "-" as "_".
wsgi_key(name) ==
  CASE name \in {"X-BitFlow-Signature", "x-bitflow-signature"}
         -> "HTTP_X_BITFLOW_SIGNATURE"
    [] name = "X-Hub-Signature" -> "HTTP_X_HUB_SIGNATURE"
    [] OTHER -> name

\* A request: its method, its headers, a sequence of [name, value], and its
\* body text.
Request(method, headers, body) ==
  [method |-> method, headers |-> headers, body |-> body]

\* request.headers.get(name): header names are matched without regard to
\* case; None when there is no such header.
headers_get(headers, name) ==
  IF \E i \in DOMAIN headers : lower(headers[i].name) = lower(name)
  THEN headers[CHOOSE i \in DOMAIN headers :
                 lower(headers[i].name) = lower(name)].value
  ELSE PyNone

\* request.META.get(key)
META_get(headers, key) ==
  IF \E i \in DOMAIN headers : wsgi_key(headers[i].name) = key
  THEN headers[CHOOSE i \in DOMAIN headers :
                 wsgi_key(headers[i].name) = key].value
  ELSE PyNone

\* jsonify({key: value}), status / JsonResponse({key: value}, status=status):
\* the view returns a JSON response with a one-key body.
jsonify(key, value, status) ==
  Return([status_code |-> status, body |-> [key |-> key, value |-> value]])

\* raise HTTPException(status_code=status, detail=detail)
HTTPException(status, detail) ==
  Raise("HTTPException", detail, NoAttr, PyInt(status), NoAttr, "adapter")

\* The adapter answered without calling process_webhook.
AnsweredAlone(outcome) ==
  [outcome |-> outcome, calls |-> <<>>, processed |-> FALSE]

\* The adapter called process_webhook, which made `calls`.
CalledProcess(outcome, calls) ==
  [outcome |-> outcome, calls |-> calls, processed |-> TRUE]

\* Mutant of FlaskResponse: an unexpected exception is answered like a
\* BitFlowError, with status 400.
FlaskResponse_Always400(o) ==
  IF o.kind = "return"
  THEN IF Truthy(o.value) THEN jsonify("received", PyBool(TRUE), 200)
       ELSE jsonify("error", PyStr("Webhook processing failed"), 400)
  ELSE IF IsInstance(o.exc, BitFlowErrorClasses)
  THEN jsonify("error", o.message, 400)
  ELSE jsonify("error", PyStr("Internal server error"), 400)

\* flask_handler lines 139-151 (django_handler lines 173-185): the response
\* for what process_webhook did.
FlaskResponse(o) ==
  IF o.kind = "return"
  THEN IF Truthy(o.value) THEN jsonify("received", PyBool(TRUE), 200)
       ELSE jsonify("error", PyStr("Webhook processing failed"), 400)
  ELSE IF IsInstance(o.exc, BitFlowErrorClasses)
  THEN jsonify("error", o.message, 400)
  ELSE IF IsInstance(o.exc, {"Exception"})
  THEN jsonify("error", PyStr("Internal server error"), 500)
  ELSE o

\* fastapi_handler lines 204-218.  The HTTPException raised in the else
\* branch is raised inside the try block, so the except Exception clause
\* replaces it.
FastApiResponse(o) ==
  IF o.kind = "return"
  THEN IF Truthy(o.value) THEN jsonify("received", PyBool(TRUE), 200)
       ELSE HTTPException(500, PyStr("Internal server error"))
  ELSE IF IsInstance(o.exc, BitFlowErrorClasses)
  THEN HTTPException(400, o.message)
  ELSE IF IsInstance(o.exc, {"Exception"})
  THEN HTTPException(500, PyStr("Internal server error"))
  ELSE o

FlaskProcessed(r) == CalledProcess(FlaskResponse(r.outcome), r.calls)

FastApiProcessed(r) == CalledProcess(FastApiResponse(r.outcome), r.calls)

\* flask_handler()(), lines 132-151
flask_handler(handlers, sec, request, effects) ==
  LET signature == headers_get(request.headers, "X-BitFlow-Signature")
  IN IF ~Truthy(signature)
     THEN AnsweredAlone(jsonify("error", PyStr("Missing signature header"), 400))
     ELSE FlaskProcessed(process_webhook(handlers, sec, request.body,
                                         signature, effects))

\* HttpResponseNotAllowed(permitted_methods): status 405 and no body.
HttpResponseNotAllowed ==
  Return([status_code |-> 405, body |-> [key |-> "", value |-> PyNone]])

\* The methods of @require_http_methods(["POST"]) on the Django view.
request_method_list == {"POST"}

\* django_handler()(request), lines 161-187.  The view is wrapped in
\* require_http_methods: a request with another method is answered by the
\* decorator and the body of the view does not run.
django_handler(handlers, sec, request, effects) ==
  IF request.method \notin request_method_list
  THEN AnsweredAlone(HttpResponseNotAllowed)
  ELSE LET signature == META_get(request.headers, "HTTP_X_BITFLOW_SIGNATURE")
       IN IF ~Truthy(signature)
          THEN AnsweredAlone(jsonify("error", PyStr("Missing signature header"), 400))
          ELSE FlaskProcessed(process_webhook(handlers, sec, request.body,
                                              signature, effects))

\* fastapi_handler()(request), lines 197-206, up to `await request.body()`:
\* the view answers a request without signature at once, and otherwise
\* holds the signature while it waits for the body.
fastapi_handler_start(request) ==
  LET signature == headers_get(request.headers, "x-bitflow-signature")
  IN IF ~Truthy(signature)
     THEN [pc |-> "done",
           answer |-> AnsweredAlone(HTTPException(400, PyStr("Missing signature header")))]
     ELSE [pc |-> "await", signature |-> signature]

\* fastapi_handler()(request), lines 206-218, once the body has arrived: the
\* registry is read now, not when the request began.
fastapi_handler_resume(handlers, sec, payload, signature, effects) ==
  FastApiProcessed(process_webhook(handlers, sec, payload, signature, effects))


(* ------------------------------------------------------------------ *)
(* Inputs of the client: HTTP responses                                *)
(* ------------------------------------------------------------------ *)

R_ErrorObject == "{\"error\":{\"message\":\"Invalid recipient address\",\"code\":\"VALIDATION_ERROR\"}}"

R_ErrorNoMessage == "{\"error\":{\"code\":\"E_CODE\"}}"

R_ErrorString == "{\"error\":\"Service unavailable\"}"

R_EmptyObject == "{}"

R_Array == "[]"

R_Html == "<html>Bad Gateway</html>"

R_NoBody == ""

R_Message == "{\"message\":\"Stream cancelled successfully\"}"

R_Stream == "{\"data\":{\"streamId\":\"stream_123\",\"stream\":{\"id\":\"stream_123\",\"sender\":\"0x123\",\"recipient\":\"0x456\",\"totalAmount\":\"1000000\",\"ratePerSecond\":\"100\",\"startTime\":1640995200,\"endTime\":1641081600,\"withdrawnAmount\":\"360000\",\"isActive\":true}}}"

R_StreamNoSender == "{\"data\":{\"stream\":{\"id\":\"stream_123\",\"recipient\":\"0x456\",\"totalAmount\":\"1000000\",\"ratePerSecond\":\"100\",\"startTime\":1640995200,\"endTime\":1641081600,\"withdrawnAmount\":\"360000\",\"isActive\":true}}}"

R_Streams == "{\"streams\":[{\"id\":\"stream_123\",\"sender\":\"0x123\",\"recipient\":\"0x456\",\"totalAmount\":\"1000000\",\"ratePerSecond\":\"100\",\"startTime\":1640995200,\"endTime\":1641081600,\"withdrawnAmount\":\"360000\",\"isActive\":true},{\"id\":\"stream_456\",\"sender\":\"0xabc\",\"recipient\":\"0xdef\",\"totalAmount\":\"5\",\"ratePerSecond\":\"1\",\"startTime\":0,\"endTime\":5,\"withdrawnAmount\":\"0\",\"isActive\":false}],\"pagination\":{\"total\":2,\"limit\":10,\"offset\":0}}"

R_Withdrawn == "{\"data\":{\"withdrawnAmount\":\"500000\"}}"

R_Plan == "{\"data\":{\"plan\":{\"id\":\"plan_123\",\"provider\":\"0x789\",\"name\":\"Pro\",\"description\":\"Pro plan\",\"price\":\"1000\",\"interval\":2592000,\"maxSubscribers\":100}}}"

R_Plans == "{\"data\":{\"plans\":[{\"id\":\"plan_123\",\"provider\":\"0x789\",\"name\":\"Pro\",\"description\":\"Pro plan\",\"price\":\"1000\",\"interval\":2592000,\"maxSubscribers\":100},{\"id\":\"plan_456\",\"provider\":\"0x789\",\"name\":\"Free\",\"price\":\"0\",\"interval\":86400,\"maxSubscribers\":0}]}}"

R_Subscribed == "{\"data\":{\"subscriptionId\":\"sub_123\"}}"

R_Subscriptions == "{\"data\":{\"subscriptions\":[{\"id\":\"sub_123\",\"planId\":\"plan_123\",\"subscriber\":\"0x123\",\"provider\":\"0x789\",\"streamId\":\"stream_123\",\"startTime\":1640995200,\"endTime\":1643587200,\"autoRenew\":true,\"status\":\"active\"}]}}"

R_Endpoint == "{\"data\":{\"endpoint\":{\"id\":\"we_123\",\"url\":\"https://example.com/hook\",\"events\":[\"stream.created\"],\"description\":\"main\",\"secret\":\"whsec_1\",\"isActive\":true,\"createdAt\":\"2023-12-01T10:00:00.000Z\"}}}"

R_Endpoints == "{\"data\":{\"endpoints\":[{\"id\":\"we_123\",\"url\":\"https://example.com/hook\",\"events\":[\"stream.created\"],\"description\":\"main\",\"secret\":\"whsec_1\",\"isActive\":true,\"createdAt\":\"2023-12-01T10:00:00.000Z\"},{\"id\":\"we_456\",\"url\":\"https://example.com/other\",\"events\":[],\"isActive\":false,\"createdAt\":\"2023-12-02T10:00:00.000Z\"}]}}"

R_TestResult == "{\"data\":{\"result\":{\"success\":true,\"statusCode\":200}}}"

ResponseTexts ==
  {R_ErrorObject, R_ErrorNoMessage, R_ErrorString, R_EmptyObject, R_Array, R_Html, R_NoBody, R_Message, R_Stream, R_StreamNoSender, R_Streams, R_Withdrawn, R_Plan, R_Plans, R_Subscribed, R_Subscriptions, R_Endpoint, R_Endpoints, R_TestResult}

\* response.json() on the response texts (requests >= 2.28, setup.py).
response_json(s) ==
  CASE s = R_ErrorObject -> Ok(PyDict([error |-> PyDict([message |-> PyStr("Invalid recipient address"), code |-> PyStr("VALIDATION_ERROR")])]))
    [] s = R_ErrorNoMessage -> Ok(PyDict([error |-> PyDict([code |-> PyStr("E_CODE")])]))
    [] s = R_ErrorString -> Ok(PyDict([error |-> PyStr("Service unavailable")]))
    [] s = R_EmptyObject -> Ok(PyDict(<<>>))
    [] s = R_Array -> Ok(PyList(<<>>))
    [] s = R_Html -> Err("requests.JSONDecodeError")
    [] s = R_NoBody -> Err("requests.JSONDecodeError")
    [] s = R_Message -> Ok(PyDict([message |-> PyStr("Stream cancelled successfully")]))
    [] s = R_Stream -> Ok(PyDict([data |-> PyDict([streamId |-> PyStr("stream_123"), stream |-> PyDict([id |-> PyStr("stream_123"), sender |-> PyStr("0x123"), recipient |-> PyStr("0x456"), totalAmount |-> PyStr("1000000"), ratePerSecond |-> PyStr("100"), startTime |-> PyInt(1640995200), endTime |-> PyInt(1641081600), withdrawnAmount |-> PyStr("360000"), isActive |-> PyBool(TRUE)])])]))
    [] s = R_StreamNoSender -> Ok(PyDict([data |-> PyDict([stream |-> PyDict([id |-> PyStr("stream_123"), recipient |-> PyStr("0x456"), totalAmount |-> PyStr("1000000"), ratePerSecond |-> PyStr("100"), startTime |-> PyInt(1640995200), endTime |-> PyInt(1641081600), withdrawnAmount |-> PyStr("360000"), isActive |-> PyBool(TRUE)])])]))
    [] s = R_Streams -> Ok(PyDict([streams |-> PyList(<<PyDict([id |-> PyStr("stream_123"), sender |-> PyStr("0x123"), recipient |-> PyStr("0x456"), totalAmount |-> PyStr("1000000"), ratePerSecond |-> PyStr("100"), startTime |-> PyInt(1640995200), endTime |-> PyInt(1641081600), withdrawnAmount |-> PyStr("360000"), isActive |-> PyBool(TRUE)]), PyDict([id |-> PyStr("stream_456"), sender |-> PyStr("0xabc"), recipient |-> PyStr("0xdef"), totalAmount |-> PyStr("5"), ratePerSecond |-> PyStr("1"), startTime |-> PyInt(0), endTime |-> PyInt(5), withdrawnAmount |-> PyStr("0"), isActive |-> PyBool(FALSE)])>>), pagination |-> PyDict([total |-> PyInt(2), limit |-> PyInt(10), offset |-> PyInt(0)])]))
    [] s = R_Withdrawn -> Ok(PyDict([data |-> PyDict([withdrawnAmount |-> PyStr("500000")])]))
    [] s = R_Plan -> Ok(PyDict([data |-> PyDict([plan |-> PyDict([id |-> PyStr("plan_123"), provider |-> PyStr("0x789"), name |-> PyStr("Pro"), description |-> PyStr("Pro plan"), price |-> PyStr("1000"), interval |-> PyInt(2592000), maxSubscribers |-> PyInt(100)])])]))
    [] s = R_Plans -> Ok(PyDict([data |-> PyDict([plans |-> PyList(<<PyDict([id |-> PyStr("plan_123"), provider |-> PyStr("0x789"), name |-> PyStr("Pro"), description |-> PyStr("Pro plan"), price |-> PyStr("1000"), interval |-> PyInt(2592000), maxSubscribers |-> PyInt(100)]), PyDict([id |-> PyStr("plan_456"), provider |-> PyStr("0x789"), name |-> PyStr("Free"), price |-> PyStr("0"), interval |-> PyInt(86400), maxSubscribers |-> PyInt(0)])>>)])]))
    [] s = R_Subscribed -> Ok(PyDict([data |-> PyDict([subscriptionId |-> PyStr("sub_123")])]))
    [] s = R_Subscriptions -> Ok(PyDict([data |-> PyDict([subscriptions |-> PyList(<<PyDict([id |-> PyStr("sub_123"), planId |-> PyStr("plan_123"), subscriber |-> PyStr("0x123"), provider |-> PyStr("0x789"), streamId |-> PyStr("stream_123"), startTime |-> PyInt(1640995200), endTime |-> PyInt(1643587200), autoRenew |-> PyBool(TRUE), status |-> PyStr("active")])>>)])]))
    [] s = R_Endpoint -> Ok(PyDict([data |-> PyDict([endpoint |-> PyDict([id |-> PyStr("we_123"), url |-> PyStr("https://example.com/hook"), events |-> PyList(<<PyStr("stream.created")>>), description |-> PyStr("main"), secret |-> PyStr("whsec_1"), isActive |-> PyBool(TRUE), createdAt |-> PyStr("2023-12-01T10:00:00.000Z")])])]))
    [] s = R_Endpoints -> Ok(PyDict([data |-> PyDict([endpoints |-> PyList(<<PyDict([id |-> PyStr("we_123"), url |-> PyStr("https://example.com/hook"), events |-> PyList(<<PyStr("stream.created")>>), description |-> PyStr("main"), secret |-> PyStr("whsec_1"), isActive |-> PyBool(TRUE), createdAt |-> PyStr("2023-12-01T10:00:00.000Z")]), PyDict([id |-> PyStr("we_456"), url |-> PyStr("https://example.com/other"), events |-> PyList(<<>>), isActive |-> PyBool(FALSE), createdAt |-> PyStr("2023-12-02T10:00:00.000Z")])>>)])]))
    [] s = R_TestResult -> Ok(PyDict([data |-> PyDict([result |-> PyDict([success |-> PyBool(TRUE), statusCode |-> PyInt(200)])])]))

H_Seconds == "30"

H_Zero == "0"

H_Empty == ""

H_Date == "Wed, 21 Oct 2015 07:28:00 GMT"

\* Values of the Retry-After header; None when the header is absent.
RetryAfterValues ==
  {PyNone, PyStr(H_Seconds), PyStr(H_Zero), PyStr(H_Empty), PyStr(H_Date)}

\* int(s) on the header texts.
py_int(s) ==
  CASE s = H_Seconds -> Ok(PyInt(30))
    [] s = H_Zero -> Ok(PyInt(0))
    [] OTHER -> Err("ValueError")

\* A requests.Response as far as _request reads it.
Response(status_code, text, retry_after) ==
  [status_code |-> status_code, text |-> text,
   headers |-> [retry_after |-> retry_after]]

\* Bodies that come with an error status, and with any other status.
ErrorTexts ==
  {R_ErrorObject, R_ErrorNoMessage, R_ErrorString, R_EmptyObject, R_Array, R_Html}

ResultTexts ==
  {R_Message, R_Stream, R_StreamNoSender, R_Streams, R_Withdrawn, R_Plan,
   R_Plans, R_Subscribed, R_Subscriptions, R_Endpoint, R_Endpoints,
   R_TestResult, R_EmptyObject, R_Array, R_Html, R_NoBody}

\* What the network does with an attempt of a request: the server answers
\* with a response, or the attempt fails in the transport (the connection
\* is refused, or it times out while connecting or while reading).
\* The body varies with the statuses whose handling reads it, Retry-After
\* on 429 only.
Transports ==
  {Err("urllib3.NewConnectionError"), Err("urllib3.ConnectTimeoutError"),
   Err("urllib3.ReadTimeoutError")}
    \cup {Ok(Response(s, t, PyNone)) : s \in {400, 404, 500}, t \in ErrorTexts}
    \cup {Ok(Response(401, t, PyNone)) : t \in {R_ErrorObject, R_Html}}
    \cup {Ok(Response(200, t, PyNone)) : t \in ResultTexts}
    \cup {Ok(Response(s, t, PyNone)) : s \in {201, 300}, t \in {R_Message, R_Stream, R_EmptyObject, R_Html}}
    \cup {Ok(Response(429, R_ErrorObject, h)) : h \in RetryAfterValues}

\* The transport has not been told what to do.
NoTransport == Err("-")

\* requests.exceptions.RequestException and its subclasses.
RequestExceptions ==
  {"requests.ConnectionError", "requests.ConnectTimeout",
   "requests.ReadTimeout", "requests.JSONDecodeError", "requests.RetryError",
   "requests.InvalidHeader"}

(* ------------------------------------------------------------------ *)
(* bitflow/client.py: BitFlowClient                                    *)
(* ------------------------------------------------------------------ *)

DefaultBaseUrl == "https://api.bitflow.dev"

TestBaseUrl == "https://api.test.com/"

DefaultTimeout == 30

\* base_url.rstrip("/") on the base URLs used.
rstrip_slash(s) ==
  CASE s = TestBaseUrl -> "https://api.test.com"
    [] OTHER -> s

\* __init__: the attributes the request routine reads.
BitFlowClient(api_key, base_url, timeout) ==
  [api_key |-> api_key, base_url |-> rstrip_slash(base_url), timeout |-> timeout]

\* Retry(total=max_retries, status_forcelist=[429, 500, 502, 503, 504])
status_forcelist == {429, 500, 502, 503, 504}

\* Retry.DEFAULT_ALLOWED_METHODS of urllib3: the methods whose requests the
\* adapter retries on a status of the forcelist.
RetryAllowedMethods == {"HEAD", "GET", "PUT", "DELETE", "OPTIONS", "TRACE"}

\* __init__: max_retries, the total of the Retry strategy.
DefaultMaxRetries == 3

\* __init__: backoff_factor of the Retry strategy.
backoff_factor == 1

\* Retry(total=...): the retries left and the number of attempts that
\* failed so far (the length of Retry.history).
Retry(total) == [total |-> total, history |-> 0]

\* Retry.increment: one retry less, one attempt more in the history.
increment(retries) ==
  [total |-> retries.total - 1, history |-> retries.history + 1]

\* Retry.is_exhausted
is_exhausted(retries) == retries.total < 0

\* Retry.get_backoff_time: nothing after the first failed attempt, then
\* backoff_factor * 2 ** (failed attempts - 1) seconds.
get_backoff_time(retries) ==
  IF retries.history <= 1 THEN 0
  ELSE backoff_factor * 2 ^ (retries.history - 1)

\* Retry.parse_retry_after of urllib3 on the header texts: digits are the
\* seconds, an HTTP-date is the time left until it (none for a date in the
\* past), and anything else, the empty text included, is an InvalidHeader.
parse_retry_after(s) ==
  CASE s = H_Seconds -> Ok(PyInt(30))
    [] s = H_Zero -> Ok(PyInt(0))
    [] s = H_Date -> Ok(PyInt(0))
    [] OTHER -> Err("requests.InvalidHeader")

\* Retry.sleep(response): the seconds the call sleeps before the next
\* attempt.  A Retry-After header of the response is parsed (a value that
\* cannot be parsed raises InvalidHeader), and its seconds are slept if
\* there are any; otherwise the backoff time is.
retry_sleep(retries, retry_after) ==
  IF retry_after.type # "str" THEN Ok(get_backoff_time(retries))
  ELSE LET seconds == parse_retry_after(retry_after.value)
       IN IF seconds.exc # "-" THEN seconds
          ELSE IF seconds.value.value > 0 THEN Ok(seconds.value.value)
          ELSE Ok(get_backoff_time(retries))

\* Retry.is_retry: a response is retried when the method is one of the
\* allowed ones and the status is in the forcelist.
is_retry(method, status_code) ==
  method \in RetryAllowedMethods /\ status_code \in status_forcelist

\* HTTPAdapter.send: the requests exception raised for a MaxRetryError of
\* urllib3, by the reason the retries ended with.
MaxRetryError(reason) ==
  CASE reason = "urllib3.ConnectTimeoutError" -> Err("requests.ConnectTimeout")
    [] reason = "urllib3.ResponseError" -> Err("requests.RetryError")
    [] OTHER -> Err("requests.ConnectionError")

\* The call has the result of session.request after `attempts` attempts.
Done(response, retries) ==
  [pc |-> "done", response |-> response, attempts |-> retries.history + 1]

\* The call goes on with another attempt after `seconds` seconds (no
\* time.sleep when `seconds` is 0); the next attempt is a new exchange with
\* the network.
Again(retries, seconds) ==
  [pc |-> "sleep", retries |-> retries, seconds |-> seconds]

\* urlopen after Retry.sleep(response) for a response that is retried: an
\* InvalidHeader of the sleep ends the request, otherwise the call sleeps
\* `seconds` and goes on.
RetryResponse(retries, seconds) ==
  IF seconds.exc # "-" THEN Done(seconds, retries)
  ELSE Again(increment(retries), seconds.value)

\* One attempt of session.request through the mounted HTTPAdapter (urlopen
\* of urllib3), with `retries` left, when the network answers this attempt
\* with `transport`.
\* A failed attempt is retried, except a read timeout of a method that is
\* not among the allowed ones, which is raised as ReadTimeout.  A response
\* whose status is in the forcelist is retried for the allowed methods.
\* A retry that finds the retries used up ends the request with the
\* exception of the MaxRetryError; otherwise the call sleeps and goes on.
\* Any other response is returned.
urlopen(method, retries, transport) ==
  IF transport.exc # "-"
  THEN IF /\ transport.exc = "urllib3.ReadTimeoutError"
          /\ method \notin RetryAllowedMethods
       THEN Done(Err("requests.ReadTimeout"), retries)
       ELSE IF is_exhausted(increment(retries))
       THEN Done(MaxRetryError(transport.exc), retries)
       ELSE Again(increment(retries), get_backoff_time(increment(retries)))
  ELSE IF is_retry(method, transport.value.status_code)
  THEN IF is_exhausted(increment(retries))
       THEN Done(MaxRetryError("urllib3.ResponseError"), retries)
       ELSE RetryResponse(retries,
                          retry_sleep(increment(retries),
                                      transport.value.headers.retry_after))
  ELSE Done(transport, retries)

\* obj.get(key, default): only a dict (of the JSON values) has the method.
dict_get(obj, key, default) ==
  IF obj.type = "dict"
  THEN Ok(IF key \in DOMAIN obj.value THEN obj.value[key] ELSE default)
  ELSE Err("AttributeError")

\* obj.get(key, default) where evaluating obj may have raised.
GetOf(obj, key, default) ==
  IF obj.exc # "-" THEN obj ELSE dict_get(obj.value, key, default)

\* response.json().get("error", {})
ErrorData(response) ==
  GetOf(response_json(response.text), "error", PyDict(<<>>))

\* error_data.get("message", default) of response.json().get("error", {})
ErrorMessage(response, default) ==
  GetOf(ErrorData(response), "message", PyStr(default))

\* int(retry_after) if retry_after else None
RetryAfterSeconds(retry_after) ==
  IF Truthy(retry_after) THEN py_int(retry_after.value) ELSE Ok(PyNone)

\* raise ValidationError(<message>): an exception raised while the argument
\* is evaluated takes the place of the one that was to be raised.
RaiseValidationError(message) ==
  IF message.exc # "-" THEN Propagate(message.exc, "response")
  ELSE ValidationError(message.value)

\* raise NotFoundError(<message>)
RaiseNotFoundError(message) ==
  IF message.exc # "-" THEN Propagate(message.exc, "response")
  ELSE NotFoundError(message.value)

\* raise RateLimitError("Rate limit exceeded", retry_after=<seconds>)
RaiseRateLimitError(seconds) ==
  IF seconds.exc # "-" THEN Propagate(seconds.exc, "response")
  ELSE RateLimitError(PyStr("Rate limit exceeded"), seconds.value)

\* raise BitFlowError(error_data.get("message", ...), error_data.get("code"),
\* response.status_code)
RaiseBitFlowError(error_data, status_code) ==
  IF error_data.exc # "-" THEN Propagate(error_data.exc, "response")
  ELSE LET message == dict_get(error_data.value, "message",
                               PyStr("API request failed"))
           code == dict_get(error_data.value, "code", PyNone)
       IN IF message.exc # "-" THEN Propagate(message.exc, "response")
          ELSE BitFlowError(message.value, code.value, PyInt(status_code))

\* return response.json()
ReturnJson(body) ==
  IF body.exc # "-" THEN Propagate(body.exc, "response") ELSE Return(body.value)

\* Lines 93-116: the status code decides what is raised or returned.
HandleResponse(response) ==
  IF response.status_code = 401
  THEN AuthenticationError(PyStr("Invalid API key"))
  ELSE IF response.status_code = 400
  THEN RaiseValidationError(ErrorMessage(response, "Bad request"))
  ELSE IF response.status_code = 404
  THEN RaiseNotFoundError(ErrorMessage(response, "Not found"))
  ELSE IF response.status_code = 429
  THEN RaiseRateLimitError(RetryAfterSeconds(response.headers.retry_after))
  ELSE IF response.status_code >= 400
  THEN RaiseBitFlowError(ErrorData(response), response.status_code)
  ELSE ReturnJson(response_json(response.text))

\* except requests.exceptions.RequestException as e: raise NetworkError(...)
ExceptRequestException(outcome) ==
  IF outcome.kind = "raise" /\ outcome.exc \in RequestExceptions
  THEN NetworkError(FStr(<<"Network request failed: ", outcome.exc>>))
  ELSE outcome

\* The try block of _request: the response of session.request goes through
\* the status handling; an exception of session.request is raised as it is.
RequestOutcome(response) ==
  IF response.exc # "-" THEN Propagate(response.exc, "transport")
  ELSE HandleResponse(response.value)

\* _request(method, endpoint, data, params): the request handed to
\* session.request and the outcome, given `response`, the response or the
\* exception session.request ends with.
_request(self, method, endpoint, data, params, response) ==
  [sent |-> [method |-> method, url |-> FStr(<<self.base_url>> \o endpoint),
             json |-> data, params |-> params, timeout |-> self.timeout],
   outcome |-> ExceptRequestException(
                 RequestOutcome(response))]

\* obj[k1][k2]...: the first failing subscript ends the evaluation.
RECURSIVE getpath(_, _)
getpath(obj, keys) ==
  IF keys = <<>> THEN Ok(obj)
  ELSE LET head == getitem(obj, Head(keys))
       IN IF head.exc # "-" THEN head ELSE getpath(head.value, Tail(keys))

\* The dataclass Stream.
Stream(id, sender, recipient, total_amount, rate_per_second, start_time, end_time, withdrawn_amount, is_active) ==
  [type |-> "Stream",
   value |-> [id |-> id, sender |-> sender, recipient |-> recipient,
              total_amount |-> total_amount, rate_per_second |-> rate_per_second,
              start_time |-> start_time, end_time |-> end_time,
              withdrawn_amount |-> withdrawn_amount, is_active |-> is_active]]

\* The keys Stream(...) reads from a stream object, in the order read.
StreamKeys ==
  <<"id", "sender", "recipient", "totalAmount", "ratePerSecond", "startTime",
    "endTime", "withdrawnAmount", "isActive">>

\* Mutant of StreamFrom: sender and recipient are exchanged.
StreamFrom_SwapsParties(s) ==
  LET read == [i \in DOMAIN StreamKeys |-> getitem(s, StreamKeys[i])]
      failed == {i \in DOMAIN StreamKeys : read[i].exc # "-"}
  IN IF failed # {}
     THEN Err(read[CHOOSE i \in failed : \A j \in failed : i <= j].exc)
     ELSE Ok(Stream(read[1].value, read[3].value, read[2].value, read[4].value,
                    read[5].value, read[6].value, read[7].value, read[8].value,
                    read[9].value))

\* Stream(id=s["id"], ..., is_active=s["isActive"]): the first failing
\* subscript raises.
StreamFrom(s) ==
  LET read == [i \in DOMAIN StreamKeys |-> getitem(s, StreamKeys[i])]
      failed == {i \in DOMAIN StreamKeys : read[i].exc # "-"}
  IN IF failed # {}
     THEN Err(read[CHOOSE i \in failed : \A j \in failed : i <= j].exc)
     ELSE Ok(Stream(read[1].value, read[2].value, read[3].value, read[4].value,
                    read[5].value, read[6].value, read[7].value, read[8].value,
                    read[9].value))

\* [Stream(...) for s in items]: iterating a list yields its items; a dict
\* or str yields str elements; int, bool and None are not iterable.
RECURSIVE StreamsFromList(_)
StreamsFromList(items) ==
  IF items = <<>> THEN Ok(<<>>)
  ELSE LET first == StreamFrom(Head(items))
       IN IF first.exc # "-" THEN first
          ELSE LET rest == StreamsFromList(Tail(items))
               IN IF rest.exc # "-" THEN rest
                  ELSE Ok(<<first.value>> \o rest.value)

StreamsFrom(items) ==
  IF items.type = "list" THEN StreamsFromList(items.value)
  ELSE IF items.type \in {"dict", "str"}
       THEN IF Truthy(items) THEN Err("TypeError") ELSE Ok(<<>>)
       ELSE Err("TypeError")

\* The dataclass StreamsResponse.
StreamsResponse(streams, pagination) ==
  [type |-> "StreamsResponse",
   value |-> [streams |-> streams, pagination |-> pagination]]

\* Stream(id=response["data"]["stream"]["id"], ...)
StreamOf(response) ==
  LET stream_data == getpath(response, <<"data", "stream">>)
  IN IF stream_data.exc # "-" THEN stream_data
     ELSE StreamFrom(stream_data.value)

\* StreamsResponse(streams=[Stream(...) for s in response["streams"]],
\*                 pagination=response["pagination"])
StreamsResponseOf(response) ==
  LET items == getitem(response, "streams")
      streams == IF items.exc # "-" THEN items ELSE StreamsFrom(items.value)
      pagination == getitem(response, "pagination")
  IN IF streams.exc # "-" THEN streams
     ELSE IF pagination.exc # "-" THEN pagination
     ELSE Ok(StreamsResponse(streams.value, pagination.value))

\* The rest of a client method after response = self._request(...): an
\* exception of _request ends the method, otherwise `result`, the value or
\* the exception of the return expression, decides.
Finish(r, result) ==
  IF r.outcome.kind = "raise" THEN r
  ELSE [sent |-> r.sent,
        outcome |-> IF result.exc # "-" THEN Propagate(result.exc, "result")
                    ELSE Return(result.value)]

\* create_stream(request)
create_stream(self, request, response) ==
  LET data == PyDict([recipient |-> request.recipient, amount |-> request.amount,
                      rate |-> request.rate, duration |-> request.duration])
      r == _request(self, "POST", <<"/api/streams">>, data, PyNone, response)
  IN Finish(r, StreamOf(r.outcome.value))

\* Mutant of StreamParams: every filter field is put into the params, an
\* unset one with the value None.
StreamParams_SendsUnset(filters) ==
  IF ~Truthy(filters) THEN [k \in {"status", "limit", "offset"} |-> PyNone]
  ELSE [k \in {"status", "limit", "offset"} |->
          IF k = "status" /\ filters.value[k].type = "StreamStatus"
          THEN PyStr(filters.value[k].value) ELSE filters.value[k]]

\* The params dict get_streams builds from the filters.
StreamParams(filters) ==
  IF ~Truthy(filters) THEN <<>>
  ELSE LET f == filters.value
           keys == {k \in {"status", "limit", "offset"} : Truthy(f[k])}
       IN [k \in keys |-> IF k = "status" THEN PyStr(f[k].value) ELSE f[k]]

\* get_streams(filters)
get_streams(self, filters, response) ==
  LET r == _request(self, "GET", <<"/api/streams">>, PyNone,
                    PyDict(StreamParams(filters)), response)
  IN Finish(r, StreamsResponseOf(r.outcome.value))

\* get_stream(stream_id)
get_stream(self, stream_id, response) ==
  LET r == _request(self, "GET", <<"/api/streams/", stream_id>>, PyNone, PyNone,
                    response)
  IN Finish(r, StreamOf(r.outcome.value))

\* cancel_stream(stream_id)
cancel_stream(self, stream_id, response) ==
  LET r == _request(self, "POST", <<"/api/streams/", stream_id, "/cancel">>,
                    PyNone, PyNone, response)
  IN Finish(r, Ok(PyNone))

\* withdraw_from_stream that posts to the cancel path.
withdraw_from_stream_CancelPath(self, stream_id, response) ==
  LET r == _request(self, "POST", <<"/api/streams/", stream_id, "/cancel">>,
                    PyNone, PyNone, response)
  IN Finish(r, getpath(r.outcome.value, <<"data", "withdrawnAmount">>))

\* withdraw_from_stream(stream_id)
withdraw_from_stream(self, stream_id, response) ==
  LET r == _request(self, "POST", <<"/api/streams/", stream_id, "/withdraw">>,
                    PyNone, PyNone, response)
  IN Finish(r, getpath(r.outcome.value, <<"data", "withdrawnAmount">>))
(* ------------------------------------------------------------------ *)
(* bitflow/client.py: subscription and webhook management              *)
(* ------------------------------------------------------------------ *)

\* The dataclass SubscriptionPlan.
SubscriptionPlan(id, provider, name, description, price, interval, max_subscribers) ==
  [type |-> "SubscriptionPlan",
   value |-> [id |-> id, provider |-> provider, name |-> name,
              description |-> description, price |-> price,
              interval |-> interval, max_subscribers |-> max_subscribers]]

\* The dataclass Subscription.
Subscription(id, plan_id, subscriber, provider, stream_id, start_time, end_time, auto_renew, status) ==
  [type |-> "Subscription",
   value |-> [id |-> id, plan_id |-> plan_id, subscriber |-> subscriber,
              provider |-> provider, stream_id |-> stream_id,
              start_time |-> start_time, end_time |-> end_time,
              auto_renew |-> auto_renew, status |-> status]]

\* The dataclass WebhookEndpoint.
WebhookEndpoint(id, url, events, description, endpoint_secret, is_active, created_at) ==
  [type |-> "WebhookEndpoint",
   value |-> [id |-> id, url |-> url, events |-> events,
              description |-> description, secret |-> endpoint_secret,
              is_active |-> is_active, created_at |-> created_at]]

\* One argument of a constructor call read from a JSON object: obj[key]
\* (default NoAttr) or obj.get(key, default).
Item(key) == [key |-> key, default |-> NoAttr]

Get(key, default) == [key |-> key, default |-> default]

\* The arguments of a constructor call, evaluated in order: the first
\* failing read raises.
ReadFields(obj, reads) ==
  LET read == [i \in DOMAIN reads |->
                 IF reads[i].default = NoAttr THEN getitem(obj, reads[i].key)
                 ELSE dict_get(obj, reads[i].key, reads[i].default)]
      failed == {i \in DOMAIN reads : read[i].exc # "-"}
  IN IF failed # {}
     THEN Err(read[CHOOSE i \in failed : \A j \in failed : i <= j].exc)
     ELSE Ok([i \in DOMAIN reads |-> read[i].value])

\* SubscriptionPlan(id=p["id"], ..., description=p.get("description"), ...)
SubscriptionPlanFrom(p) ==
  LET read == ReadFields(p, <<Item("id"), Item("provider"), Item("name"),
                              Get("description", PyNone), Item("price"),
                              Item("interval"), Item("maxSubscribers")>>)
      v == read.value
  IN IF read.exc # "-" THEN read
     ELSE Ok(SubscriptionPlan(v[1], v[2], v[3], v[4], v[5], v[6], v[7]))

\* Subscription(id=s["id"], plan_id=s["planId"], ..., status=s["status"])
SubscriptionFrom(s) ==
  LET read == ReadFields(s, <<Item("id"), Item("planId"), Item("subscriber"),
                              Item("provider"), Item("streamId"),
                              Item("startTime"), Item("endTime"),
                              Item("autoRenew"), Item("status")>>)
      v == read.value
  IN IF read.exc # "-" THEN read
     ELSE Ok(Subscription(v[1], v[2], v[3], v[4], v[5], v[6], v[7], v[8], v[9]))

\* [event for event in events]: a list gives a list of its items; None, an
\* int or a bool is not iterable.  (The bodies used hold a list under
\* "events" or lack the key.)
ListOf(events) ==
  IF events.type = "list" THEN Ok(events) ELSE Err("TypeError")

\* create_webhook: WebhookEndpoint(id=..., url=..., events=[event for event
\* in endpoint_data["events"]], description=endpoint_data.get("description"),
\* secret=endpoint_data["secret"], ...)
CreatedEndpointFrom(endpoint_data) ==
  LET head == ReadFields(endpoint_data,
                         <<Item("id"), Item("url"), Item("events")>>)
      events == IF head.exc # "-" THEN head ELSE ListOf(head.value[3])
      tail == ReadFields(endpoint_data,
                         <<Get("description", PyNone), Item("secret"),
                           Item("isActive"), Item("createdAt")>>)
  IN IF events.exc # "-" THEN events
     ELSE IF tail.exc # "-" THEN tail
     ELSE Ok(WebhookEndpoint(head.value[1], head.value[2], events.value,
                             tail.value[1], tail.value[2], tail.value[3],
                             tail.value[4]))

\* get_webhooks, update_webhook: WebhookEndpoint(..., events=e["events"],
\* ..., secret=e.get("secret", ""), ...)
WebhookEndpointFrom(e) ==
  LET read == ReadFields(e, <<Item("id"), Item("url"), Item("events"),
                              Get("description", PyNone),
                              Get("secret", PyStr("")), Item("isActive"),
                              Item("createdAt")>>)
      v == read.value
  IN IF read.exc # "-" THEN read
     ELSE Ok(WebhookEndpoint(v[1], v[2], v[3], v[4], v[5], v[6], v[7]))

\* The constructor call a list comprehension makes for each item.
RecordFrom(kind, item) ==
  CASE kind = "SubscriptionPlan" -> SubscriptionPlanFrom(item)
    [] kind = "Subscription" -> SubscriptionFrom(item)
    [] kind = "WebhookEndpoint" -> WebhookEndpointFrom(item)

\* [Kind(...) for item in items]: iterating a list yields its items; a dict
\* or str yields str elements; int, bool and None are not iterable.
RECURSIVE RecordsFromList(_, _)
RecordsFromList(kind, items) ==
  IF items = <<>> THEN Ok(<<>>)
  ELSE LET first == RecordFrom(kind, Head(items))
       IN IF first.exc # "-" THEN first
          ELSE LET rest == RecordsFromList(kind, Tail(items))
               IN IF rest.exc # "-" THEN rest
                  ELSE Ok(<<first.value>> \o rest.value)

RecordsFrom(kind, items) ==
  IF items.exc # "-" THEN items
  ELSE IF items.value.type = "list"
  THEN LET records == RecordsFromList(kind, items.value.value)
       IN IF records.exc # "-" THEN records ELSE Ok(PyList(records.value))
  ELSE IF items.value.type \in {"dict", "str"} /\ ~Truthy(items.value)
       THEN Ok(PyList(<<>>))
       ELSE Err("TypeError")

\* Kind(...) built from response["data"][key].
RecordOf(kind, response, key) ==
  LET record_data == getpath(response, <<"data", key>>)
  IN IF record_data.exc # "-" THEN record_data
     ELSE IF kind = "CreatedEndpoint" THEN CreatedEndpointFrom(record_data.value)
     ELSE RecordFrom(kind, record_data.value)

\* A dict built from `fields`: the keys of `always` and, of the others,
\* those whose value passes the test of the if statement.
DictOf(fields, always, if_truthy, if_not_none) ==
  PyDict([k \in always
               \cup {t \in if_truthy : Truthy(fields[t])}
               \cup {n \in if_not_none : fields[n].type # "NoneType"}
            |-> fields[k]])

\* create_subscription_plan(request)
create_subscription_plan(self, request, response) ==
  LET data == DictOf([name |-> request.name, price |-> request.price,
                      interval |-> request.interval,
                      description |-> request.description,
                      maxSubscribers |-> request.max_subscribers],
                     {"name", "price", "interval"},
                     {"description", "maxSubscribers"}, {})
      r == _request(self, "POST", <<"/api/subscriptions/plans">>, data, PyNone,
                    response)
  IN Finish(r, RecordOf("SubscriptionPlan", r.outcome.value, "plan"))

\* get_subscription_plans(provider)
get_subscription_plans(self, provider, response) ==
  LET params == DictOf([provider |-> provider], {}, {"provider"}, {})
      r == _request(self, "GET", <<"/api/subscriptions/plans">>, PyNone, params,
                    response)
  IN Finish(r, RecordsFrom("SubscriptionPlan",
                           getpath(r.outcome.value, <<"data", "plans">>)))

\* subscribe(request)
subscribe(self, request, response) ==
  LET data == DictOf([planId |-> request.plan_id, duration |-> request.duration,
                      autoRenew |-> request.auto_renew],
                     {"planId", "duration"}, {}, {"autoRenew"})
      r == _request(self, "POST", <<"/api/subscriptions">>, data, PyNone,
                    response)
  IN Finish(r, getpath(r.outcome.value, <<"data", "subscriptionId">>))

\* get_subscriptions()
get_subscriptions(self, response) ==
  LET r == _request(self, "GET", <<"/api/subscriptions">>, PyNone, PyNone,
                    response)
  IN Finish(r, RecordsFrom("Subscription",
                           getpath(r.outcome.value, <<"data", "subscriptions">>)))

\* cancel_subscription(subscription_id)
cancel_subscription(self, subscription_id, response) ==
  LET r == _request(self, "POST",
                    <<"/api/subscriptions/", subscription_id, "/cancel">>,
                    PyNone, PyNone, response)
  IN Finish(r, Ok(PyNone))

\* [event.value for event in request.events]
EventValues(events) == PyList([i \in DOMAIN events |-> PyStr(events[i])])

\* create_webhook(request)
create_webhook(self, request, response) ==
  LET data == DictOf([url |-> request.url, events |-> EventValues(request.events),
                      description |-> request.description],
                     {"url", "events"}, {"description"}, {})
      r == _request(self, "POST", <<"/api/webhooks/endpoints">>, data, PyNone,
                    response)
  IN Finish(r, RecordOf("CreatedEndpoint", r.outcome.value, "endpoint"))

\* get_webhooks()
get_webhooks(self, response) ==
  LET r == _request(self, "GET", <<"/api/webhooks/endpoints">>, PyNone, PyNone,
                    response)
  IN Finish(r, RecordsFrom("WebhookEndpoint",
                           getpath(r.outcome.value, <<"data", "endpoints">>)))

\* update_webhook(endpoint_id, url, events, is_active)
update_webhook(self, endpoint_id, url, events, is_active, response) ==
  LET data == DictOf([url |-> url, events |-> events, isActive |-> is_active],
                     {}, {"url", "events"}, {"isActive"})
      r == _request(self, "PUT", <<"/api/webhooks/endpoints/", endpoint_id>>,
                    data, PyNone, response)
  IN Finish(r, RecordOf("WebhookEndpoint", r.outcome.value, "endpoint"))

\* delete_webhook(endpoint_id)
delete_webhook(self, endpoint_id, response) ==
  LET r == _request(self, "DELETE", <<"/api/webhooks/endpoints/", endpoint_id>>,
                    PyNone, PyNone, response)
  IN Finish(r, Ok(PyNone))

\* test_webhook(endpoint_id)
test_webhook(self, endpoint_id, response) ==
  LET data == PyDict([endpointId |-> PyStr(endpoint_id)])
      r == _request(self, "POST", <<"/api/webhooks/test">>, data, PyNone,
                    response)
  IN Finish(r, getpath(r.outcome.value, <<"data", "result">>))


(* ------------------------------------------------------------------ *)
(* The webhook handler as a state machine                              *)
(* ------------------------------------------------------------------ *)

WebhookSecrets == {PyStr(S_Test), PyStr(S_Other)}

Payloads == {PyStr(p) : p \in PayloadTexts}

\* The payloads delivered to process_webhook.
WebhookPayloads == Payloads \ {PyStr(P_String), PyStr(P_NullEvent)}

\* The signature the sender computes for a payload under a secret.
Sign(sec, payload) == PyStr(HmacSha256Hex(sec.value, payload.value))

\* Signatures presented with a payload: the right one and the ones made
\* with another secret.
SignaturesFor(sec, payload) ==
  {Sign(sec, payload)} \cup {Sign(s, payload) : s \in WebhookSecrets \ {sec}}

\* What the two callbacks of one webhook do: the generic one is reached only
\* when the specific one returned, so at most one of them raises.
EffectChoices ==
  {e \in [event : Effects, generic : Effects] :
     e.event = "return" \/ e.generic = "return"}

NoCall == [op |-> "none"]

\* No request is being served by an adapter.
NoRequest == [pc |-> "none"]

\* No BitFlowClient has been constructed.
NoClient == [api_key |-> "-", base_url |-> "-", timeout |-> 0]

\* The handlers the application has asked to register for a slot, oldest
\* first (history of the calls made, kept beside the registry).
NoRequests == [k \in HandlerKeys |-> <<>>]

Init ==
  /\ secret = PyStr(S_Test)
  /\ event_handlers = EmptyHandlers
  /\ reg_log = NoRequests
  /\ client = NoClient
  /\ session = NoTransport
  /\ inflight = NoRequest
  /\ last_call = NoCall

NumRegistrations ==
  LET RECURSIVE Sum(_)
      Sum(S) == IF S = {} THEN 0
                ELSE LET k == CHOOSE x \in S : TRUE
                     IN Len(reg_log[k]) + Sum(S \ {k})
  IN Sum(HandlerKeys)

\* A registration call made for `slot` that leaves `handlers` as the registry.
Register(method, slot, handler, handlers) ==
  /\ NumRegistrations < MaxRegistrations
  /\ event_handlers' = handlers
  /\ reg_log' = [reg_log EXCEPT ![slot] = Append(@, handler)]
  /\ last_call' = [op |-> method]
  /\ UNCHANGED <<secret, client, session, inflight>>

Call_on_event(event, handler) ==
  Register("on_event", event, handler, on_event(event_handlers, event, handler))

Call_on_webhook(handler) ==
  Register("on_webhook", GenericKey, handler, on_webhook(event_handlers, handler))

Call_on_stream_created(handler) ==
  Register("on_stream_created", "stream.created", handler,
           on_stream_created(event_handlers, handler))

Call_on_stream_cancelled(handler) ==
  Register("on_stream_cancelled", "stream.cancelled", handler,
           on_stream_cancelled(event_handlers, handler))

Call_on_stream_completed(handler) ==
  Register("on_stream_completed", "stream.completed", handler,
           on_stream_completed(event_handlers, handler))

Call_on_subscription_created(handler) ==
  Register("on_subscription_created", "subscription.created", handler,
           on_subscription_created(event_handlers, handler))

Call_on_subscription_cancelled(handler) ==
  Register("on_subscription_cancelled", "subscription.cancelled", handler,
           on_subscription_cancelled(event_handlers, handler))

Call_on_payment_received(handler) ==
  Register("on_payment_received", "payment.received", handler,
           on_payment_received(event_handlers, handler))

\* Mutant of Call_process_webhook: a callback is dropped from the registry
\* once it has been invoked.
Call_process_webhook_OneShot(payload, signature, effects) ==
  LET r == process_webhook(event_handlers, secret, payload, signature, effects)
      invoked == {r.calls[i].slot : i \in DOMAIN r.calls}
  IN /\ last_call' = [op |-> "process_webhook", payload |-> payload,
                      signature |-> signature,
                      outcome |-> r.outcome, calls |-> r.calls]
     /\ event_handlers' = [k \in DOMAIN event_handlers \ invoked |->
                             event_handlers[k]]
     /\ UNCHANGED <<secret, reg_log, client, session, inflight>>

Call_process_webhook(payload, signature, effects) ==
  LET r == process_webhook(event_handlers, secret, payload, signature, effects)
  IN /\ last_call' = [op |-> "process_webhook", payload |-> payload,
                      signature |-> signature,
                      outcome |-> r.outcome, calls |-> r.calls]
     /\ UNCHANGED <<secret, event_handlers, reg_log, client, session, inflight>>

Next ==
  \/ \E e \in WebhookEventValues, h \in Handlers : Call_on_event(e, h)
  \/ \E h \in Handlers : Call_on_webhook(h)
  \/ \E h \in Handlers : Call_on_stream_created(h)
  \/ \E h \in Handlers : Call_on_stream_cancelled(h)
  \/ \E h \in Handlers : Call_on_stream_completed(h)
  \/ \E h \in Handlers : Call_on_subscription_created(h)
  \/ \E h \in Handlers : Call_on_subscription_cancelled(h)
  \/ \E h \in Handlers : Call_on_payment_received(h)
  \/ \E p \in WebhookPayloads :
       \E s \in SignaturesFor(secret, p) :
         \E e \in EffectChoices : Call_process_webhook(p, s, e)

Spec == Init /\ [][Next]_vars

(* ------------------------------------------------------------------ *)
(* verify_signature alone, on a wider set of inputs                    *)
(* ------------------------------------------------------------------ *)

\* Signatures tried against every payload and secret: every digest of the
\* table, variants of a right digest, a str that is no digest, a non-ASCII
\* str, the right digest as bytes, and None.
VerifySignatures ==
  {Sign(s, p) : s \in WebhookSecrets, p \in Payloads}
    \cup {PyStr(Sig_Upper), PyStr(Sig_Truncated), PyStr(Sig_Padded),
          PyStr(Sig_LastFlipped), PyStr("invalid"), PyStr(""),
          PyStr(Sig_NonAscii), PyNone,
          PyBytes(HmacSha256Hex(S_Test, P_StreamCreated))}

VerifyInit ==
  /\ secret \in WebhookSecrets \cup {PyNone}
  /\ event_handlers = EmptyHandlers
  /\ reg_log = NoRequests
  /\ client = NoClient
  /\ session = NoTransport
  /\ inflight = NoRequest
  /\ last_call = NoCall

Call_verify_signature(payload, signature) ==
  /\ last_call' = [op |-> "verify_signature", payload |-> payload,
                   signature |-> signature,
                   outcome |-> verify_signature(secret, payload, signature)]
  /\ UNCHANGED <<secret, event_handlers, reg_log, client, session, inflight>>

VerifyNext ==
  \E p \in Payloads \cup {PyNone}, s \in VerifySignatures :
    Call_verify_signature(p, s)

VerifySpec == VerifyInit /\ [][VerifyNext]_vars

(* ------------------------------------------------------------------ *)
(* The client as a state machine                                       *)
(* ------------------------------------------------------------------ *)

\* The request of test_create_stream_success.
CreateStreamRequests ==
  {[recipient |-> PyStr("0x456"), amount |-> PyStr("1000000"),
    rate |-> PyStr("100"), duration |-> PyInt(10000)]}

StreamStatusActive == [type |-> "StreamStatus", value |-> "active"]

StreamFilters(status, limit, offset) ==
  [type |-> "StreamFilters",
   value |-> [status |-> status, limit |-> limit, offset |-> offset]]

\* Filters given to get_streams: none, or each field unset or set.
FilterChoices ==
  {PyNone}
    \cup {StreamFilters(s, l, o) : s \in {PyNone, StreamStatusActive},
                                   l \in {PyNone, PyInt(10)},
                                   o \in {PyNone, PyInt(0)}}

StreamIds == {"stream_123"}

ClientInit ==
  /\ secret = PyStr(S_Test)
  /\ event_handlers = EmptyHandlers
  /\ reg_log = NoRequests
  /\ client \in {BitFlowClient("test-api-key", u, DefaultTimeout) :
                   u \in {DefaultBaseUrl, TestBaseUrl}}
  /\ session = NoTransport
  /\ inflight = NoRequest
  /\ last_call = NoCall

\* The environment settles what the network does with the attempts to come
\* (the responses.add of the tests, or a transport failure); it may do so
\* between any two attempts of a call, whether or not the call sleeps
\* between them.
Session_set(t) ==
  /\ session' = t
  /\ last_call' = NoCall
  /\ UNCHANGED <<secret, event_handlers, reg_log, client, inflight>>

\* The client method `op` on its arguments, given `response`, the response
\* or the exception session.request ends with: what it sent and how it
\* ended.
ClientMethod(self, op, args, response) ==
  CASE op = "create_stream" -> create_stream(self, args[1], response)
    [] op = "get_streams" -> get_streams(self, args[1], response)
    [] op = "get_stream" -> get_stream(self, args[1], response)
    [] op = "cancel_stream" -> cancel_stream(self, args[1], response)
    [] op = "withdraw_from_stream" -> withdraw_from_stream(self, args[1], response)
    [] op = "create_subscription_plan" -> create_subscription_plan(self, args[1], response)
    [] op = "get_subscription_plans" -> get_subscription_plans(self, args[1], response)
    [] op = "subscribe" -> subscribe(self, args[1], response)
    [] op = "get_subscriptions" -> get_subscriptions(self, response)
    [] op = "cancel_subscription" -> cancel_subscription(self, args[1], response)
    [] op = "create_webhook" -> create_webhook(self, args[1], response)
    [] op = "get_webhooks" -> get_webhooks(self, response)
    [] op = "update_webhook" -> update_webhook(self, args[1], args[2], args[3], args[4], response)
    [] op = "delete_webhook" -> delete_webhook(self, args[1], response)
    [] op = "test_webhook" -> test_webhook(self, args[1], response)

\* A client method was entered and is about to call session.request with
\* the HTTP method `method`.
Calling(op, args, method) ==
  [pc |-> "call", op |-> op, args |-> args, method |-> method,
   retries |-> Retry(DefaultMaxRetries), seconds |-> 0]

\* The call of `op` stands between two attempts: it sleeps `seconds` (not
\* at all when 0) before the next one.
Sleeping(op, args, method, retries, seconds) ==
  [pc |-> "sleep", op |-> op, args |-> args, method |-> method,
   retries |-> retries, seconds |-> seconds]

\* No call of the client is under way and the network is settled.
Idle == inflight = NoRequest /\ session # NoTransport

\* Entering a client method changes nothing but the call under way.
Entered ==
  /\ last_call' = NoCall
  /\ UNCHANGED <<secret, event_handlers, reg_log, client, session>>

\* The client method `op` after one attempt of session.request, `answer`,
\* under what the network does now: the method ends with the result, `r`
\* being what it sent and how it ended, or the call goes on to the next
\* attempt.
ClientCall(op, args, method, answer, r) ==
  /\ IF answer.pc = "done"
     THEN /\ last_call' = [op |-> op, args |-> args, transport |-> session,
                           attempts |-> answer.attempts, sent |-> r.sent,
                           outcome |-> r.outcome]
          /\ inflight' = NoRequest
     ELSE /\ last_call' = NoCall
          /\ inflight' = Sleeping(op, args, method, answer.retries,
                                  answer.seconds)
  /\ UNCHANGED <<secret, event_handlers, reg_log, client, session>>

\* The call under way makes one attempt of session.request: its first, or
\* the next one of the retry loop.  Each attempt meets the network as it is
\* then.
Attempt_request ==
  /\ inflight.pc \in {"call", "sleep"}
  /\ \E answer \in {urlopen(inflight.method, inflight.retries, session)} :
       ClientCall(inflight.op, inflight.args, inflight.method, answer,
                  ClientMethod(client, inflight.op, inflight.args,
                               answer.response))

Call_create_stream(request) ==
  /\ Idle
  /\ inflight' = Calling("create_stream", <<request>>, "POST")
  /\ Entered

Call_get_streams(filters) ==
  /\ Idle
  /\ inflight' = Calling("get_streams", <<filters>>, "GET")
  /\ Entered

Call_get_stream(stream_id) ==
  /\ Idle
  /\ inflight' = Calling("get_stream", <<stream_id>>, "GET")
  /\ Entered

Call_cancel_stream(stream_id) ==
  /\ Idle
  /\ inflight' = Calling("cancel_stream", <<stream_id>>, "POST")
  /\ Entered

Call_withdraw_from_stream(stream_id) ==
  /\ Idle
  /\ inflight' = Calling("withdraw_from_stream", <<stream_id>>, "POST")
  /\ Entered

\* Requests of create_subscription_plan: each optional field absent, set to
\* a falsy value, or set.
PlanRequests ==
  {[name |-> PyStr("Pro"), description |-> d, price |-> PyStr("1000"),
    interval |-> PyInt(2592000), max_subscribers |-> m] :
     d \in {PyNone, PyStr(""), PyStr("Pro plan")},
     m \in {PyNone, PyInt(0), PyInt(100)}}

Providers == {PyNone, PyStr(""), PyStr("0x789")}

SubscriptionRequests ==
  {[plan_id |-> PyStr("plan_123"), duration |-> PyInt(2592000),
    auto_renew |-> a] : a \in {PyNone, PyBool(FALSE), PyBool(TRUE)}}

SubscriptionIds == {"sub_123"}

\* Requests of create_webhook; events holds the values of WebhookEvent members.
WebhookRequests ==
  {[url |-> PyStr("https://example.com/hook"), events |-> ev,
    description |-> d] :
     ev \in {<<>>, <<STREAM_CREATED, PAYMENT_RECEIVED>>},
     d \in {PyNone, PyStr(""), PyStr("main")}}

EndpointIds == {"we_123"}

\* Arguments url, events and is_active of update_webhook.
WebhookUpdates ==
  {[url |-> ue[1], events |-> ue[2], is_active |-> a] :
     ue \in {<<PyNone, PyNone>>, <<PyStr(""), PyList(<<>>)>>,
             <<PyStr("https://example.com/new"),
               PyList(<<PyStr(STREAM_CREATED)>>)>>},
     a \in {PyNone, PyBool(FALSE), PyBool(TRUE)}}

Call_create_subscription_plan(request) ==
  /\ Idle
  /\ inflight' = Calling("create_subscription_plan", <<request>>, "POST")
  /\ Entered

Call_get_subscription_plans(provider) ==
  /\ Idle
  /\ inflight' = Calling("get_subscription_plans", <<provider>>, "GET")
  /\ Entered

Call_subscribe(request) ==
  /\ Idle
  /\ inflight' = Calling("subscribe", <<request>>, "POST")
  /\ Entered

Call_get_subscriptions ==
  /\ Idle
  /\ inflight' = Calling("get_subscriptions", <<>>, "GET")
  /\ Entered

Call_cancel_subscription(subscription_id) ==
  /\ Idle
  /\ inflight' = Calling("cancel_subscription", <<subscription_id>>, "POST")
  /\ Entered

Call_create_webhook(request) ==
  /\ Idle
  /\ inflight' = Calling("create_webhook", <<request>>, "POST")
  /\ Entered

Call_get_webhooks ==
  /\ Idle
  /\ inflight' = Calling("get_webhooks", <<>>, "GET")
  /\ Entered

Call_update_webhook(endpoint_id, update) ==
  /\ Idle
  /\ inflight' = Calling("update_webhook", <<endpoint_id, update.url, update.events, update.is_active>>, "PUT")
  /\ Entered

Call_delete_webhook(endpoint_id) ==
  /\ Idle
  /\ inflight' = Calling("delete_webhook", <<endpoint_id>>, "DELETE")
  /\ Entered

Call_test_webhook(endpoint_id) ==
  /\ Idle
  /\ inflight' = Calling("test_webhook", <<endpoint_id>>, "POST")
  /\ Entered

ClientNext ==
  \/ \E t \in Transports : Session_set(t)
  \/ \E q \in CreateStreamRequests : Call_create_stream(q)
  \/ \E f \in FilterChoices : Call_get_streams(f)
  \/ \E id \in StreamIds : Call_get_stream(id)
  \/ \E id \in StreamIds : Call_cancel_stream(id)
  \/ \E id \in StreamIds : Call_withdraw_from_stream(id)
  \/ \E q \in PlanRequests : Call_create_subscription_plan(q)
  \/ \E p \in Providers : Call_get_subscription_plans(p)
  \/ \E q \in SubscriptionRequests : Call_subscribe(q)
  \/ Call_get_subscriptions
  \/ \E id \in SubscriptionIds : Call_cancel_subscription(id)
  \/ \E q \in WebhookRequests : Call_create_webhook(q)
  \/ Call_get_webhooks
  \/ \E id \in EndpointIds : \E u \in WebhookUpdates : Call_update_webhook(id, u)
  \/ \E id \in EndpointIds : Call_delete_webhook(id)
  \/ \E id \in EndpointIds : Call_test_webhook(id)
  \/ Attempt_request

ClientSpec == ClientInit /\ [][ClientNext]_vars

(* ------------------------------------------------------------------ *)
(* Vocabulary of the properties                                        *)
(* ------------------------------------------------------------------ *)

Processed == last_call.op = "process_webhook"

\* The presented signature is the sender's signature of the payload.
SignedBySender == last_call.signature = Sign(secret, last_call.payload)

\* The payload text read as JSON (its table entry), independent of the
\* handler's own parsing.
Json(payload) == json_loads(payload.value)

IsJsonObject(payload) ==
  Json(payload).exc = "-" /\ Json(payload).value.type = "dict"

Fields(payload) == Json(payload).value.value

EnvelopeFields == {"id", "event", "data", "timestamp"}

RecognizedEvents == {PyStr(e) : e \in WebhookEventValues}

\* A JSON object with the four envelope fields and a recognized event name.
WellFormed(payload) ==
  /\ IsJsonObject(payload)
  /\ EnvelopeFields \subseteq DOMAIN Fields(payload)
  /\ Fields(payload).event \in RecognizedEvents

\* A JSON object that has an event field with an unrecognized value.
HasUnrecognizedEvent(payload) ==
  /\ IsJsonObject(payload)
  /\ "event" \in DOMAIN Fields(payload)
  /\ Fields(payload).event \notin RecognizedEvents

\* The envelope a well-formed payload stands for.
EnvelopeOf(payload) ==
  [id |-> Fields(payload).id, event |-> Fields(payload).event.value,
   data |-> Fields(payload).data, timestamp |-> Fields(payload).timestamp]

\* The last call delivered a correctly signed, well-formed event.
Delivered == Processed /\ SignedBySender /\ WellFormed(last_call.payload)

Succeeded == Processed /\ last_call.outcome.kind = "return"

IsSpecific(c) == c.slot # GenericKey

IsGeneric(c) == c.slot = GenericKey

SpecificCalls == SelectSeq(last_call.calls, IsSpecific)

GenericCalls == SelectSeq(last_call.calls, IsGeneric)

\* The handler most recently requested for a slot.
LastRegistered(slot) == reg_log[slot][Len(reg_log[slot])]

RaisedBitFlowError(code) ==
  /\ last_call.outcome.kind = "raise"
  /\ last_call.outcome.exc = "BitFlowError"
  /\ last_call.outcome.code = PyStr(code)

(* ------------------------------------------------------------------ *)
(* Properties of the webhook handler                                   *)
(* ------------------------------------------------------------------ *)

\* C1: whatever has been registered, a process_webhook call whose signature
\* does not verify raises BitFlowError with code INVALID_SIGNATURE and
\* invokes no callback, neither a per-event one nor the generic one.
C1_InvalidSignatureRejected ==
  (Processed /\ ~SignedBySender)
    => (RaisedBitFlowError("INVALID_SIGNATURE") /\ last_call.calls = <<>>)

\* C1 witness: a well-formed stream.created event with a wrong signature is
\* rejected while both its callback and the generic one are registered.
C1_Witness ==
  /\ Processed
  /\ ~SignedBySender
  /\ last_call.payload = PyStr(P_StreamCreated)
  /\ {STREAM_CREATED, GenericKey} \subseteq DOMAIN event_handlers
  /\ RaisedBitFlowError("INVALID_SIGNATURE")

\* C2: with a str secret and a str payload, verify_signature returns True
\* exactly when the signature is the str holding the lowercase hexadecimal
\* HMAC-SHA256 of the payload under the secret.
C2_VerifyIffHmac ==
  (last_call.op = "verify_signature" /\ secret.type = "str"
     /\ last_call.payload.type = "str")
    => (last_call.outcome.value = PyBool(TRUE)
          <=> last_call.signature = Sign(secret, last_call.payload))

\* C2 witness: a right signature was accepted.
C2_Witness ==
  /\ last_call.op = "verify_signature"
  /\ secret.type = "str"
  /\ last_call.payload.type = "str"
  /\ last_call.signature = Sign(secret, last_call.payload)
  /\ last_call.outcome.value = PyBool(TRUE)

\* C3: a correctly signed JSON object whose event value is not one of the
\* six recognized names fails with INVALID_PAYLOAD and invokes no callback,
\* whatever callbacks are registered.
C3_UnrecognizedEventRejected ==
  (Processed /\ SignedBySender /\ HasUnrecognizedEvent(last_call.payload))
    => (RaisedBitFlowError("INVALID_PAYLOAD") /\ last_call.calls = <<>>)

\* C3 witness: the event named "webhook", the registry's generic key, is
\* rejected while a generic callback is registered.
C3_Witness ==
  /\ Processed
  /\ SignedBySender
  /\ last_call.payload = PyStr(P_GenericKeyEvent)
  /\ GenericKey \in DOMAIN event_handlers
  /\ RaisedBitFlowError("INVALID_PAYLOAD")

\* C4 (as claimed): a correctly signed payload that is not JSON, is not a
\* JSON object, or lacks one of id, event, data, timestamp makes
\* process_webhook fail with BitFlowError INVALID_PAYLOAD and nothing else.
C4_MalformedPayloadIsInvalidPayload ==
  (Processed /\ SignedBySender
     /\ (~IsJsonObject(last_call.payload)
           \/ ~(EnvelopeFields \subseteq DOMAIN Fields(last_call.payload))))
    => RaisedBitFlowError("INVALID_PAYLOAD")

\* C5 (as claimed): an exception raised by a dispatched callback leaves
\* process_webhook unchanged, whatever its class, and is never turned into
\* an INVALID_PAYLOAD error.
C5_CallbackExceptionPropagates ==
  Processed =>
    \A i \in DOMAIN last_call.calls :
      last_call.calls[i].effect # "return"
        => last_call.outcome = Propagate(last_call.calls[i].effect, "callback")

\* C6: the per-event callback a process_webhook call invokes is the one most
\* recently registered for that event name, and it is the only per-event
\* callback invoked: an earlier registration for the name never fires.
C6_LastRegistrationWins ==
  Processed =>
    /\ Len(SpecificCalls) <= 1
    /\ \A i \in DOMAIN SpecificCalls :
         /\ reg_log[SpecificCalls[i].slot] # <<>>
         /\ SpecificCalls[i].handler = LastRegistered(SpecificCalls[i].slot)

\* C6 witness: h1 then h2 were registered for stream.created, a
\* stream.created event was delivered and h2 was invoked.
C6_Witness ==
  /\ reg_log[STREAM_CREATED] = <<"h1", "h2">>
  /\ Delivered
  /\ last_call.payload = PyStr(P_StreamCreated)
  /\ Len(SpecificCalls) = 1
  /\ SpecificCalls[1].handler = "h2"

\* C7: if a generic callback is registered, every process_webhook call that
\* returns invoked it once, with the envelope, whether or not a callback is
\* registered for the event.
C7_GenericFiresOnSuccess ==
  (Succeeded /\ reg_log[GenericKey] # <<>>)
    => GenericCalls = <<Invocation(GenericKey, LastRegistered(GenericKey),
                                   <<EnvelopeOf(last_call.payload)>>, "return")>>

\* C7 witness: a payment.received event succeeded with both a specific and
\* a generic callback registered, and both were invoked.
C7_Witness ==
  /\ Succeeded
  /\ last_call.payload = PyStr(P_PaymentReceived)
  /\ reg_log[GenericKey] # <<>>
  /\ reg_log[PAYMENT_RECEIVED] # <<>>
  /\ Len(last_call.calls) = 2

\* C8: a process_webhook call that returns for an event of type E invoked
\* the callback registered for E exactly once with (data, envelope) of the
\* payload, and no callback registered for another event type.
C8_SpecificCallbackOnly ==
  Succeeded =>
    LET env == EnvelopeOf(last_call.payload)
    IN SpecificCalls =
         IF reg_log[env.event] = <<>>
         THEN <<>>
         ELSE <<Invocation(env.event, LastRegistered(env.event),
                           <<env.data, env>>, "return")>>

\* C8 witness: with callbacks registered for stream.cancelled and
\* subscription.created, a stream.cancelled event invoked one callback.
C8_Witness ==
  /\ Succeeded
  /\ last_call.payload = PyStr(P_StreamCancelled)
  /\ reg_log[STREAM_CANCELLED] # <<>>
  /\ reg_log[SUBSCRIPTION_CREATED] # <<>>
  /\ Len(last_call.calls) = 1

(* ------------------------------------------------------------------ *)
(* Properties of the client                                            *)
(* ------------------------------------------------------------------ *)

ClientOps ==
  {"create_stream", "get_streams", "get_stream", "cancel_stream",
   "withdraw_from_stream", "create_subscription_plan",
   "get_subscription_plans", "subscribe", "get_subscriptions",
   "cancel_subscription", "create_webhook", "get_webhooks", "update_webhook",
   "delete_webhook", "test_webhook"}

\* The last call was a client method for which an HTTP response arrived.
ResponseReceived == last_call.op \in ClientOps /\ last_call.transport.exc = "-"

ReceivedStatus == last_call.transport.value.status_code

\* The error table of the client: the class raised for a status code.
ErrorClassOf(status) ==
  CASE status = 401 -> "AuthenticationError"
    [] status = 400 -> "ValidationError"
    [] status = 404 -> "NotFoundError"
    [] status = 429 -> "RateLimitError"
    [] OTHER -> "BitFlowError"

\* C9 (as claimed): for every client method and every response received,
\* the status code alone decides the error raised: 401 AuthenticationError,
\* 400 ValidationError, 404 NotFoundError, 429 RateLimitError, any other
\* status >= 400 a BitFlowError carrying the response status.
C9_ErrorKindByStatusAlone ==
  (ResponseReceived /\ ReceivedStatus >= 400)
    => /\ last_call.outcome.kind = "raise"
       /\ last_call.outcome.exc = ErrorClassOf(ReceivedStatus)
       /\ last_call.outcome.status_code = PyInt(ReceivedStatus)

\* C10 (as claimed): a response whose status is outside 200..299 never ends
\* a client method normally, and the error raised for it is a BitFlowError
\* or one of its subclasses.
C10_NonSuccessIsTypedError ==
  (ResponseReceived /\ ~(ReceivedStatus \in 200..299))
    => /\ last_call.outcome.kind = "raise"
       /\ last_call.outcome.exc \in BitFlowErrorClasses

\* The Retry-After header of the response the server answered with.
RetryAfterHeader == last_call.transport.value.headers.retry_after

\* The integer a Retry-After header text denotes.
SecondsOf(header) ==
  CASE header = PyStr(H_Seconds) -> PyInt(30)
    [] header = PyStr(H_Zero) -> PyInt(0)

\* C11 (as claimed): when the server answers 429, the client method raises
\* RateLimitError; its retry_after is the integer of the Retry-After header
\* when the header holds one (30 for "30"), and None when there is no header.
C11_RetryAfterCarried ==
  (/\ ResponseReceived
   /\ ReceivedStatus = 429
   /\ RetryAfterHeader \in {PyNone, PyStr(H_Seconds), PyStr(H_Zero)})
    => /\ last_call.outcome.kind = "raise"
       /\ last_call.outcome.exc = "RateLimitError"
       /\ last_call.outcome.retry_after =
            IF RetryAfterHeader = PyNone THEN PyNone
            ELSE SecondsOf(RetryAfterHeader)

\* The filter fields that are set (not None) in a StreamFilters value.
FilterFieldsSet(filters) ==
  {k \in {"status", "limit", "offset"} : filters.value[k].type # "NoneType"}

\* The value a filter field has in the query: the enum's value for status.
QueryValue(v) == IF v.type = "StreamStatus" THEN PyStr(v.value) ELSE v

\* C12 (as claimed): get_streams sends every filter field that is set (not
\* None) as a query parameter with its value, a field set to 0 included;
\* status=active, limit=10, offset=0 gives exactly these three parameters.
C12_SetFiltersAreSent ==
  (last_call.op = "get_streams" /\ last_call.args[1].type = "StreamFilters")
    => LET filters == last_call.args[1]
           params == last_call.sent.params.value
       IN /\ DOMAIN params = FilterFieldsSet(filters)
          /\ \A k \in FilterFieldsSet(filters) :
               params[k] = QueryValue(filters.value[k])

\* The optional fields of a request body, by the key they have in the body,
\* with the values the caller gave for them.
OptionalFields ==
  CASE last_call.op = "create_subscription_plan" ->
         [description |-> last_call.args[1].description,
          maxSubscribers |-> last_call.args[1].max_subscribers]
    [] last_call.op = "subscribe" ->
         [autoRenew |-> last_call.args[1].auto_renew]
    [] last_call.op = "create_webhook" ->
         [description |-> last_call.args[1].description]
    [] last_call.op = "update_webhook" ->
         [url |-> last_call.args[2], events |-> last_call.args[3],
          isActive |-> last_call.args[4]]

\* C13 (as claimed): in the bodies built by create_subscription_plan,
\* subscribe, create_webhook and update_webhook an optional field is in the
\* body if and only if its value is not None, and it is there with its value:
\* 0, False, "" and [] are included.
C13_OptionalFieldsIffNotNone ==
  (last_call.op \in {"create_subscription_plan", "subscribe", "create_webhook",
                     "update_webhook"})
    => LET body == last_call.sent.json.value
       IN \A k \in DOMAIN OptionalFields :
            /\ (k \in DOMAIN body) <=> (OptionalFields[k].type # "NoneType")
            /\ (k \in DOMAIN body) => body[k] = OptionalFields[k]

\* The outbound interface table: HTTP method and path of each operation,
\* with the resource id of the call substituted.
InterfaceTable ==
  LET id == last_call.args[1]
  IN CASE last_call.op = "create_stream" -> <<"POST", <<"/api/streams">> >>
       [] last_call.op = "get_streams" -> <<"GET", <<"/api/streams">> >>
       [] last_call.op = "get_stream" -> <<"GET", <<"/api/streams/", id>> >>
       [] last_call.op = "cancel_stream" ->
            <<"POST", <<"/api/streams/", id, "/cancel">> >>
       [] last_call.op = "withdraw_from_stream" ->
            <<"POST", <<"/api/streams/", id, "/withdraw">> >>
       [] last_call.op = "create_subscription_plan" ->
            <<"POST", <<"/api/subscriptions/plans">> >>
       [] last_call.op = "get_subscription_plans" ->
            <<"GET", <<"/api/subscriptions/plans">> >>
       [] last_call.op = "subscribe" -> <<"POST", <<"/api/subscriptions">> >>
       [] last_call.op = "get_subscriptions" ->
            <<"GET", <<"/api/subscriptions">> >>
       [] last_call.op = "cancel_subscription" ->
            <<"POST", <<"/api/subscriptions/", id, "/cancel">> >>
       [] last_call.op = "create_webhook" ->
            <<"POST", <<"/api/webhooks/endpoints">> >>
       [] last_call.op = "get_webhooks" -> <<"GET", <<"/api/webhooks/endpoints">> >>
       [] last_call.op = "update_webhook" ->
            <<"PUT", <<"/api/webhooks/endpoints/", id>> >>
       [] last_call.op = "delete_webhook" ->
            <<"DELETE", <<"/api/webhooks/endpoints/", id>> >>
       [] last_call.op = "test_webhook" -> <<"POST", <<"/api/webhooks/test">> >>

\* The base URL the client was configured with, without a trailing "/".
ConfiguredBase ==
  IF client.base_url = "https://api.test.com" THEN "https://api.test.com"
  ELSE DefaultBaseUrl

\* C14: every client operation sends its request with the HTTP method of the
\* interface table to the URL made of the configured base URL followed by the
\* table's path with the resource id substituted.
C14_MethodAndPath ==
  (last_call.op \in ClientOps)
    => /\ last_call.sent.method = InterfaceTable[1]
       /\ last_call.sent.url = FStr(<<ConfiguredBase>> \o InterfaceTable[2])

\* update_webhook was called on the client configured with the test base URL
\* and sent PUT to /api/webhooks/endpoints/we_123 under that base.
C14_Witness ==
  /\ last_call.op = "update_webhook"
  /\ last_call.sent.method = "PUT"
  /\ last_call.sent.url =
       FStr(<<"https://api.test.com", "/api/webhooks/endpoints/", "we_123">>)

\* C15: verify_signature never raises; it returns a bool, and False whenever
\* the secret, the payload or the signature is not a str (values on which the
\* HMAC computation or the comparison fails).
C15_VerifyNeverRaises ==
  (last_call.op = "verify_signature")
    => /\ last_call.outcome.kind = "return"
       /\ last_call.outcome.value.type = "bool"
       /\ (\/ secret.type # "str"
           \/ last_call.payload.type # "str"
           \/ last_call.signature.type # "str")
            => last_call.outcome.value = PyBool(FALSE)

\* verify_signature was called on a handler whose secret is None, with a str
\* payload and a str signature, and returned False.
C15_Witness ==
  /\ last_call.op = "verify_signature"
  /\ secret = PyNone
  /\ last_call.payload.type = "str"
  /\ last_call.signature.type = "str"
  /\ last_call.outcome = Return(PyBool(FALSE))

(* ------------------------------------------------------------------ *)
(* The framework adapters as a state machine                           *)
(* ------------------------------------------------------------------ *)

\* The bodies of the requests sent to an adapter: text that is not JSON, JSON
\* that is not an object, and two well-formed webhooks.
RequestBodies ==
  {PyStr(P_NotJson), PyStr(P_Array), PyStr(P_StreamCreated),
   PyStr(P_PaymentReceived)}

\* The payloads given to process_webhook by an application that calls it
\* itself: the bodies above, an event the SDK does not know and an envelope
\* without data.
DirectPayloads == RequestBodies \cup {PyStr(P_UnknownEvent), PyStr(P_NoData)}

\* The headers of a request with body `body`: none, the signature header
\* with the right signature under either spelling, with a signature made
\* under another secret, with an empty value, or only the header of
\* another sender.
RequestHeaders(body) ==
  {<<>>,
   <<[name |-> "X-BitFlow-Signature", value |-> Sign(secret, body)]>>,
   <<[name |-> "x-bitflow-signature", value |-> Sign(secret, body)]>>,
   <<[name |-> "X-BitFlow-Signature", value |-> Sign(PyStr(S_Other), body)]>>,
   <<[name |-> "X-BitFlow-Signature", value |-> PyStr("")]>>,
   <<[name |-> "X-Hub-Signature", value |-> Sign(secret, body)]>>}

\* The methods of the requests: POST, by which webhooks are delivered, and
\* GET.
RequestMethods == {"POST", "GET"}

\* A request that has reached the server and has not been answered.
Arrived(request) == [pc |-> "arrived", request |-> request]

\* The FastAPI view suspended in `await request.body()`, holding the
\* signature it read from the headers.
Awaiting(request, signature) ==
  [pc |-> "await", request |-> request, signature |-> signature]

\* A request reaches the server.  One request is served at a time; what is
\* known of the last call is forgotten.
Request_arrives(request) ==
  /\ inflight = NoRequest
  /\ inflight' = Arrived(request)
  /\ last_call' = NoCall
  /\ UNCHANGED <<secret, event_handlers, reg_log, client, session>>

\* The view has answered the request in flight.
AdapterCall(op, effects, r) ==
  /\ last_call' = [op |-> op, request |-> inflight.request,
                   effects |-> effects, outcome |-> r.outcome,
                   calls |-> r.calls, processed |-> r.processed]
  /\ inflight' = NoRequest
  /\ UNCHANGED <<secret, event_handlers, reg_log, client, session>>

Call_flask_handler(effects) ==
  /\ inflight.pc = "arrived"
  /\ AdapterCall("flask_handler", effects,
                 flask_handler(event_handlers, secret, inflight.request, effects))

Call_django_handler(effects) ==
  /\ inflight.pc = "arrived"
  /\ AdapterCall("django_handler", effects,
                 django_handler(event_handlers, secret, inflight.request, effects))

\* The FastAPI view from its start to the await: it answers, or is
\* suspended until the body has arrived.
Call_fastapi_handler(effects) ==
  /\ inflight.pc = "arrived"
  /\ LET started == fastapi_handler_start(inflight.request)
     IN IF started.pc = "done"
        THEN AdapterCall("fastapi_handler", effects, started.answer)
        ELSE /\ inflight' = Awaiting(inflight.request, started.signature)
             /\ UNCHANGED <<secret, event_handlers, reg_log, client, session,
                            last_call>>

\* The FastAPI view from the await to its answer.
Resume_fastapi_handler(effects) ==
  /\ inflight.pc = "await"
  /\ AdapterCall("fastapi_handler", effects,
                 fastapi_handler_resume(event_handlers, secret,
                                        inflight.request.body,
                                        inflight.signature, effects))

AdapterNext ==
  \/ Call_on_stream_created("h1")
  \/ Call_on_webhook("h1")
  \/ \E p \in DirectPayloads :
       \E s \in SignaturesFor(secret, p) :
         \E e \in EffectChoices : Call_process_webhook(p, s, e)
  \/ \E m \in RequestMethods : \E p \in RequestBodies :
       \E hs \in RequestHeaders(p) : Request_arrives(Request(m, hs, p))
  \/ \E e \in EffectChoices : Call_flask_handler(e)
  \/ \E e \in EffectChoices : Call_django_handler(e)
  \/ \E e \in EffectChoices : Call_fastapi_handler(e)
  \/ \E e \in EffectChoices : Resume_fastapi_handler(e)

AdapterSpec == Init /\ [][AdapterNext]_vars

AdapterOps == {"flask_handler", "django_handler", "fastapi_handler"}

\* The value of the request's signature header, whatever the case of its
\* name; None when the request has no such header.
SignatureHeader(request) ==
  LET named == {i \in DOMAIN request.headers :
                  request.headers[i].name
                    \in {"X-BitFlow-Signature", "x-bitflow-signature"}}
  IN IF named = {} THEN PyNone
     ELSE request.headers[CHOOSE i \in named : TRUE].value

\* The status of the answer: of the response returned, or of the
\* HTTPException raised to the framework.
AnswerStatus(o) ==
  IF o.kind = "return" THEN o.value.status_code
  ELSE IF o.exc = "HTTPException" THEN o.status_code.value
  ELSE 0

\* The error message of the answer: the body's error, or the detail of the
\* HTTPException.
AnswerMessage(o) ==
  IF o.kind = "return"
  THEN IF o.value.body.key = "error" THEN o.value.body.value ELSE PyNone
  ELSE o.message

\* What the adapter's answer has to be, given the outcome of process_webhook
\* on the request's body and signature.
AnswerFollows(answer, processed, o) ==
  /\ processed
  /\ (o.kind = "return" /\ o.value = PyBool(TRUE))
       => /\ answer.kind = "return"
          /\ answer.value.status_code = 200
          /\ answer.value.body = [key |-> "received", value |-> PyBool(TRUE)]
  /\ (o.kind = "raise" /\ o.exc \in BitFlowErrorClasses)
       => /\ AnswerStatus(answer) = 400
          /\ AnswerMessage(answer) = o.message
  /\ (o.kind = "raise" /\ o.exc \notin BitFlowErrorClasses)
       => AnswerStatus(answer) = 500

\* The Django view's method guard answered the request: it was not a POST
\* and the view's body did not run.
MethodRefused ==
  /\ last_call.op = "django_handler"
  /\ last_call.request.method # "POST"

\* The mapping of the last request to the adapter's answer: without a
\* signature header, or with an empty one, 400 and no call of
\* process_webhook; otherwise 200 {"received": true} when process_webhook
\* succeeds, 400 with the error's message when it raises a BitFlowError, and
\* 500 when it raises anything else.
AdapterMaps ==
  LET sig == SignatureHeader(last_call.request)
  IN IF sig.type = "NoneType" \/ sig.value = ""
     THEN /\ AnswerStatus(last_call.outcome) = 400
          /\ ~last_call.processed
          /\ last_call.calls = <<>>
     ELSE AnswerFollows(last_call.outcome, last_call.processed,
            process_webhook(event_handlers, secret,
                            last_call.request.body, sig,
                            last_call.effects).outcome)

\* C16 (as claimed): an adapter maps each request, whatever its method, to
\* 400 without calling process_webhook when the signature header is missing
\* or empty, to 200 {"received": true} when process_webhook succeeds, to 400
\* with the error's message when it raises a BitFlowError, and to 500 when
\* it raises anything else.
C16_EachRequestMapped ==
  (last_call.op \in AdapterOps) => AdapterMaps

\* C16 (amended): the Flask and FastAPI adapters map each request, and the
\* Django adapter each POST request, to 400 without calling process_webhook
\* when the signature header is missing or empty, to 200 {"received": true}
\* when process_webhook succeeds, to 400 with the error's message when it
\* raises a BitFlowError, and to 500 when it raises anything else; the
\* Django adapter answers a request that is not a POST with 405 and does not
\* call process_webhook, whatever its headers.
C16_AdapterMapping ==
  (last_call.op \in AdapterOps)
    => IF MethodRefused
       THEN /\ AnswerStatus(last_call.outcome) = 405
            /\ ~last_call.processed
            /\ last_call.calls = <<>>
       ELSE AdapterMaps

\* The FastAPI adapter answered 500 to a correctly signed webhook whose
\* callback raised RuntimeError.
C16_Witness ==
  /\ last_call.op = "fastapi_handler"
  /\ SignatureHeader(last_call.request)
       = Sign(secret, last_call.request.body)
  /\ last_call.processed
  /\ Len(last_call.calls) > 0
  /\ last_call.outcome.kind = "raise"
  /\ last_call.outcome.exc = "HTTPException"
  /\ last_call.outcome.status_code = PyInt(500)

\* C17 (as claimed): a client method ends in NetworkError exactly when the
\* HTTP call failed in the transport; a call for which a response with a
\* status code arrived never ends in NetworkError.
C17_NetworkErrorIffTransportFailure ==
  (last_call.op \in ClientOps)
    => ((last_call.outcome.kind = "raise"
           /\ last_call.outcome.exc = "NetworkError")
          <=> last_call.transport.exc # "-")

\* The Stream field that holds the value of each key of a JSON stream object.
StreamFieldOf ==
  [id |-> "id", sender |-> "sender", recipient |-> "recipient",
   totalAmount |-> "total_amount", ratePerSecond |-> "rate_per_second",
   startTime |-> "start_time", endTime |-> "end_time",
   withdrawnAmount |-> "withdrawn_amount", isActive |-> "is_active"]

HasKey(obj, key) == obj.type = "dict" /\ key \in DOMAIN obj.value

\* obj is a JSON stream object: it has the nine keys.
IsStreamObject(obj) == \A k \in DOMAIN StreamFieldOf : HasKey(obj, k)

\* stream is a Stream whose nine fields hold the values of obj's keys.
StreamReadsBack(stream, obj) ==
  /\ stream.type = "Stream"
  /\ DOMAIN stream.value = {StreamFieldOf[k] : k \in DOMAIN StreamFieldOf}
  /\ \A k \in DOMAIN StreamFieldOf :
       stream.value[StreamFieldOf[k]] = obj.value[k]

\* The JSON body of the response received by the last call.
ReceivedJson == response_json(last_call.transport.value.text)

\* The last call received a 2xx response whose body is a JSON object.
ReceivedObject ==
  /\ ResponseReceived
  /\ ReceivedStatus \in 200..299
  /\ ReceivedJson.exc = "-"
  /\ ReceivedJson.value.type = "dict"

\* The body has a stream object under data.stream.
BodyHasStream(body) ==
  /\ HasKey(body, "data")
  /\ HasKey(body.value["data"], "stream")
  /\ IsStreamObject(body.value["data"].value["stream"])

\* The body has a list of stream objects under streams, and a pagination.
BodyHasStreams(body) ==
  /\ HasKey(body, "streams")
  /\ HasKey(body, "pagination")
  /\ body.value["streams"].type = "list"
  /\ \A i \in DOMAIN body.value["streams"].value :
       IsStreamObject(body.value["streams"].value[i])

\* The call returned a StreamsResponse whose streams read back the objects
\* of the list, in order.
StreamsReadBack(result, items) ==
  /\ result.type = "StreamsResponse"
  /\ DOMAIN result.value.streams = DOMAIN items
  /\ \A i \in DOMAIN items : StreamReadsBack(result.value.streams[i], items[i])

\* C18: create_stream and get_stream return a Stream whose nine fields hold,
\* unchanged, the values of the nine keys of the stream object of the
\* response, and get_streams returns one such Stream for every object of
\* the list, in order.
C18_StreamRoundTrip ==
  /\ (ReceivedObject /\ last_call.op \in {"create_stream", "get_stream"}
        /\ BodyHasStream(ReceivedJson.value))
       => /\ last_call.outcome.kind = "return"
          /\ StreamReadsBack(last_call.outcome.value,
                             ReceivedJson.value.value["data"].value["stream"])
  /\ (ReceivedObject /\ last_call.op = "get_streams"
        /\ BodyHasStreams(ReceivedJson.value))
       => /\ last_call.outcome.kind = "return"
          /\ StreamsReadBack(last_call.outcome.value,
                             ReceivedJson.value.value["streams"].value)

\* get_streams returned two streams, the first one sent by 0x123 to 0x456.
C18_Witness ==
  /\ ReceivedObject
  /\ last_call.op = "get_streams"
  /\ BodyHasStreams(ReceivedJson.value)
  /\ last_call.outcome.kind = "return"
  /\ Len(last_call.outcome.value.value.streams) = 2
  /\ last_call.outcome.value.value.streams[1].value.sender = PyStr("0x123")
  /\ last_call.outcome.value.value.streams[1].value.recipient = PyStr("0x456")

\* The callback in a slot of the registry; "-" when the slot is empty.
SlotOf(handlers, key) == IF key \in DOMAIN handlers THEN handlers[key] ELSE "-"

\* C19: a registration changes only the slot it is made for: on_event and
\* the on_<event> methods leave the generic slot and the slots of the other
\* events as they were, and on_webhook leaves every per-event slot as it
\* was.
C19_SlotsIndependent ==
  [][\A k \in HandlerKeys :
       reg_log'[k] = reg_log[k]
         => SlotOf(event_handlers', k) = SlotOf(event_handlers, k)]_vars

\* h1 was registered by on_webhook, then h2 by on_stream_created, and both
\* slots hold their callback.
C19_Witness ==
  /\ last_call.op = "on_stream_created"
  /\ reg_log[GenericKey] = <<"h1">>
  /\ reg_log[STREAM_CREATED] = <<"h2">>
  /\ SlotOf(event_handlers, GenericKey) = "h1"
  /\ SlotOf(event_handlers, STREAM_CREATED) = "h2"

\* The code and the HTTP status of each error kind of the SDK.
ErrorKinds ==
  {[exc |-> "AuthenticationError", code |-> "AUTHENTICATION_ERROR", status |-> PyInt(401)],
   [exc |-> "ValidationError", code |-> "VALIDATION_ERROR", status |-> PyInt(400)],
   [exc |-> "NotFoundError", code |-> "NOT_FOUND", status |-> PyInt(404)],
   [exc |-> "RateLimitError", code |-> "RATE_LIMIT_EXCEEDED", status |-> PyInt(429)],
   [exc |-> "NetworkError", code |-> "NETWORK_ERROR", status |-> PyNone],
   [exc |-> "BitFlowError", code |-> "INVALID_SIGNATURE", status |-> PyNone],
   [exc |-> "BitFlowError", code |-> "INVALID_PAYLOAD", status |-> PyNone]}

SameValue(a, b) == a.type = b.type /\ a.value = b.value

\* The exception o is of kind k and carries k's code and status.
IsOfKind(o, k) ==
  /\ o.exc = k.exc
  /\ SameValue(o.code, PyStr(k.code))
  /\ SameValue(o.status_code, k.status)

\* C20 (as claimed): every error with which process_webhook or a client
\* method ends, other than one raised by the application's own callback, is
\* a BitFlowError or one of its subclasses, and an error of a subclass or
\* of the webhook handler carries the code and the status of its kind.
C20_ErrorsAreTyped ==
  (/\ last_call.op \in ClientOps \cup {"process_webhook"}
   /\ last_call.outcome.kind = "raise"
   /\ last_call.outcome.origin # "callback")
    => /\ last_call.outcome.exc \in BitFlowErrorClasses
       /\ (last_call.outcome.exc # "BitFlowError"
             \/ last_call.op = "process_webhook")
            => \E k \in ErrorKinds : IsOfKind(last_call.outcome, k)

\* C21: get_streams never sends a filter field that is None: the params of
\* the request hold only fields that are set, and a call without filters
\* sends an empty params dict.
C21_UnsetFiltersOmitted ==
  (last_call.op = "get_streams")
    => /\ last_call.sent.params.type = "dict"
       /\ IF last_call.args[1].type = "StreamFilters"
          THEN DOMAIN last_call.sent.params.value
                 \subseteq FilterFieldsSet(last_call.args[1])
          ELSE DOMAIN last_call.sent.params.value = {}

\* get_streams was called with only the status filter set, and the request
\* carried the status parameter alone.
C21_Witness ==
  /\ last_call.op = "get_streams"
  /\ last_call.args[1] = StreamFilters(StreamStatusActive, PyNone, PyNone)
  /\ DOMAIN last_call.sent.params.value = {"status"}
  /\ last_call.sent.params.value["status"] = PyStr("active")

\* C22: in one process_webhook call every invocation of the per-event
\* callback comes before every invocation of the generic callback, and when
\* the per-event callback raised, the generic callback was not invoked.
C22_SpecificBeforeGeneric ==
  Processed =>
    /\ \A i, j \in DOMAIN last_call.calls :
         (IsSpecific(last_call.calls[i]) /\ IsGeneric(last_call.calls[j]))
           => i < j
    /\ (\E i \in DOMAIN last_call.calls :
          /\ IsSpecific(last_call.calls[i])
          /\ last_call.calls[i].effect # "return")
         => GenericCalls = <<>>

\* With a callback for stream.created and a generic callback registered, a
\* stream.created event invoked the first and then the second.
C22_Witness ==
  /\ Delivered
  /\ last_call.payload = PyStr(P_StreamCreated)
  /\ Len(last_call.calls) = 2
  /\ last_call.calls[1].slot = STREAM_CREATED
  /\ last_call.calls[2].slot = GenericKey

\* C23: process_webhook returns True or raises, never False; it returns
\* True only for a correctly signed, well-formed payload all of whose invoked
\* callbacks returned; and no adapter ever answers "Webhook processing
\* failed".
C23_TrueOrRaise ==
  /\ Processed =>
       /\ last_call.outcome.kind = "return"
            => SameValue(last_call.outcome.value, PyBool(TRUE))
       /\ Succeeded
            => /\ SignedBySender
               /\ WellFormed(last_call.payload)
               /\ \A i \in DOMAIN last_call.calls :
                    last_call.calls[i].effect = "return"
  /\ (last_call.op \in AdapterOps)
       => ~SameValue(AnswerMessage(last_call.outcome),
                     PyStr("Webhook processing failed"))

\* The Flask adapter received a webhook signed under another secret, called
\* process_webhook and answered 400 with the message of the BitFlowError
\* raised.
C23_Witness ==
  /\ last_call.op = "flask_handler"
  /\ last_call.processed
  /\ SignatureHeader(last_call.request)
       = Sign(PyStr(S_Other), last_call.request.body)
  /\ AnswerStatus(last_call.outcome) = 400
  /\ SameValue(AnswerMessage(last_call.outcome),
               PyStr("Invalid webhook signature"))

\* C24: a verify_signature or process_webhook call, whatever its outcome,
\* leaves the secret and every slot of the callback registry as they were
\* before the call.
C24_CallsLeaveHandlerAlone ==
  [][(last_call'.op \in {"process_webhook", "verify_signature"})
       => /\ secret' = secret
          /\ event_handlers' = event_handlers]_vars

\* A process_webhook call in which the stream.created callback raised
\* RuntimeError has ended, and the registry still holds that callback and
\* the generic one.
C24_Witness ==
  /\ Delivered
  /\ Len(last_call.calls) = 1
  /\ last_call.calls[1].slot = STREAM_CREATED
  /\ last_call.calls[1].effect = "RuntimeError"
  /\ reg_log[STREAM_CREATED] # <<>>
  /\ reg_log[GenericKey] # <<>>
  /\ SlotOf(event_handlers, STREAM_CREATED) = LastRegistered(STREAM_CREATED)
  /\ SlotOf(event_handlers, GenericKey) = LastRegistered(GenericKey)
  /\ secret = PyStr(S_Test)

\* No callback has been registered, per-event or generic.
NothingRegistered == \A k \in HandlerKeys : reg_log[k] = <<>>

\* C25: with nothing registered, process_webhook on a correctly signed,
\* well-formed payload of a recognized event returns True and invokes no
\* callback.
C25_EmptyRegistryReturnsTrue ==
  (Delivered /\ NothingRegistered)
    => /\ last_call.outcome.kind = "return"
       /\ SameValue(last_call.outcome.value, PyBool(TRUE))
       /\ last_call.calls = <<>>

\* A subscription.created event was delivered to a handler without any
\* registration and process_webhook returned.
C25_Witness ==
  /\ Delivered
  /\ NothingRegistered
  /\ event_handlers = EmptyHandlers
  /\ last_call.payload = PyStr(P_SubscriptionCreated)
  /\ Succeeded

====
